---- MODULE Spec2Model ----
(***************************************************************************)
(* PUBG point tracker: the hosted tables and bucket (match_screenshots,    *)
(* the match-screenshots bucket), the player dashboard's upload pipeline   *)
(* and standings refresh, the admin dashboard's standings and the          *)
(* screenshot verification dialog.                                         *)
(***************************************************************************)
EXTENDS Integers, Sequences, FiniteSets, TLC

\* ------------------------------------------------------------------ values

\* JavaScript/SQL null.  Kept apart from every integer the model draws.
NULL == -99

\* `x || 0` on a number-or-null: null and 0 both give 0.
OrZero(x) == IF x = NULL THEN 0 ELSE x

\* `x || 1` on a number-or-null: null and 0 both give 1.
OrOne(x) == IF x = NULL \/ x = 0 THEN 1 ELSE x

\* The two player clients and the teams of the selected tournament.
Players == {"p1", "p2"}
Teams == {"A", "B"}

\* The uploader of the rows that exist before the clients are mounted.
Earlier == "p0"

\* The tournaments, and the rows of the teams table: teams A and B belong to
\* tournament T1, team C to tournament T2.
Tournaments == {"T1", "T2"}
OtherTeams == {"C"}
TournamentTeams(tid) ==
    IF tid = "T1" THEN Teams ELSE IF tid = "T2" THEN OtherTeams ELSE {}

\* ------------------------------------------------------ program constants

\* The team cap of handleFileUpload.
MaxUploads == 12

\* The per-batch cap of handleFileUpload.
MaxBatchFiles == 4

\* The day column's CHECK (day >= 1 AND day <= 3).
MinDay == 1
MaxDay == 3

\* The placement select of the edit dialog offers 1..18.
MaxEditPlacement == 18

\* The last key of the PLACEMENT_POINTS literals.
MaxTablePlacement == 32

\* ------------------------------------------------------------------ bounds

\* Largest kill count the analysis service or the edit dialog yields.
MaxKills == 1

\* Largest kill count drawn for the scoring function.
MaxScoreKills == 5

\* Largest placement drawn for the scoring function (beyond the table's keys).
MaxPlacement == 34

\* Batches one run starts, and edits the administrator submits.
MaxBatches == 2
MaxEdits == 1

\* Batches started beside the administrator's edits.
MaxEditBatches == 2

\* Rows of the tables the standings aggregation is applied to.
MaxAggRows == 2

\* Inserts made through the table API, outside the dashboard.
MaxApiInserts == 1

\* Login handlers started in one browser.
MaxLogins == 3

\* Deletes started, and the rows there are to delete at the start.
MaxDeletes == 2

\* Batches one player starts while changing the tournament.
MaxTournamentBatches == 1

\* ------------------------------------------------------------------ scoring

\* PLACEMENT_POINTS of handleFileUpload with the eighth place left out.
PLACEMENT_POINTS_NoEighth(p) ==
    CASE p = 1 -> 10 [] p = 2 -> 6 [] p = 3 -> 5 [] p = 4 -> 4
      [] p = 5 -> 3 [] p = 6 -> 2 [] p = 7 -> 1
      [] p \in 9..MaxTablePlacement -> 0
      [] OTHER -> NULL

\* PLACEMENT_POINTS as written in handleFileUpload; a missing key is undefined.
PLACEMENT_POINTS_Upload(p) ==
    CASE p = 1 -> 10 [] p = 2 -> 6 [] p = 3 -> 5 [] p = 4 -> 4
      [] p = 5 -> 3 [] p = 6 -> 2 [] p = 7 -> 1 [] p = 8 -> 1
      [] p \in 9..MaxTablePlacement -> 0
      [] OTHER -> NULL

\* PLACEMENT_POINTS as written in PlayerDashboard.fetchTeams.
PLACEMENT_POINTS_Player(p) ==
    CASE p = 1 -> 10 [] p = 2 -> 6 [] p = 3 -> 5 [] p = 4 -> 4
      [] p = 5 -> 3 [] p = 6 -> 2 [] p = 7 -> 1 [] p = 8 -> 1
      [] p \in 9..MaxTablePlacement -> 0
      [] OTHER -> NULL

\* PLACEMENT_POINTS as written in AdminDashboard.fetchTeams.
PLACEMENT_POINTS_Admin(p) ==
    CASE p = 1 -> 10 [] p = 2 -> 6 [] p = 3 -> 5 [] p = 4 -> 4
      [] p = 5 -> 3 [] p = 6 -> 2 [] p = 7 -> 1 [] p = 8 -> 1
      [] p \in 9..MaxTablePlacement -> 0
      [] OTHER -> NULL

\* The upload's points without the kills.
UploadPointsNoKills(placement, kills) ==
    OrZero(PLACEMENT_POINTS_Upload(placement))

\* handleFileUpload: placementPoints = PLACEMENT_POINTS[placement] || 0;
\* points = placementPoints + kills.
UploadPoints(placement, kills) ==
    OrZero(PLACEMENT_POINTS_Upload(placement)) + kills

\* calculatePoints of @/types/tournament (section 4.1 of the specification):
\* the table's points for the placement, 0 outside 1..8, plus one per kill.
calculatePoints(placement, kills) ==
    (CASE placement = 1 -> 10 [] placement = 2 -> 6 [] placement = 3 -> 5
       [] placement = 4 -> 4 [] placement = 5 -> 3 [] placement = 6 -> 2
       [] placement \in {7, 8} -> 1
       [] OTHER -> 0) + kills

\* ------------------------------------------------------------------- state

VARIABLES
    \* hosted backend
    match_screenshots,  \* the table: a sequence of rows, in insertion order
    storage,            \* the match-screenshots bucket: the stored object names
    nextRowId,          \* the id the table gives its next row
    nextObj,            \* the next object name (`${userId}/${Date.now()}_${i}`)
    apiInserts,         \* the days of the inserts made through the table API
    \* PlayerDashboard, one per mounted player
    mounted,            \* the players whose dashboard is mounted
    selectedTournamentId,
    allTeams,           \* the ids of the teams the team select lists
    teamListFetches,    \* the fetchTeamsForTournament calls in flight, by the
                        \* tournament each was called for
    selectedTeamId,
    selectedDay,
    teamUploadCounts,
    teams,
    uploading,
    analyzing,
    batch,              \* handleFileUpload's locals and its position
    fetches,            \* the fetchTeams calls in flight: the query awaited
                        \* and the tournament the call was made for
    matchError,         \* the last match_screenshots query of fetchTeams failed
    trace,              \* what the last handleFileUpload call did, in order:
                        \* the toast of a rejected batch, or the remote calls
    batches,            \* batches started so far
    \* AdminDashboard and ScreenshotVerification
    adminTeams,
    adminFetches,
    adminMatchError,    \* matchError of the last fetchTeams
    editDialogOpen,
    selectedScreenshot,
    editPlacement,
    editKills,
    adminToast,
    edits,              \* updates submitted so far
    \* the scoring function applied to one input
    calcIn,
    calcOut,
    \* authentication: one browser
    sessions,           \* the sessions table, in insertion order
    authUser,           \* the user of the browser's auth session, or NULL
    nextUserId,         \* the id signInAnonymously gives its next user
    route,              \* "/auth" (Auth) or "/" (Index)
    authPage,           \* Auth: accessCode, the handler's position and locals
    indexPage,          \* Index: userId, userRole, loading
    logins,             \* login handlers started so far
    \* ScreenshotGallery
    deleting,           \* handleDeleteScreenshot's call in flight, if any
    deletes             \* the deletes started so far: by whom, as what

dbVars == <<match_screenshots, storage, nextRowId, nextObj, apiInserts>>
tournamentVars == <<selectedTournamentId, allTeams, teamListFetches>>
playerVars == <<mounted, tournamentVars, selectedTeamId, selectedDay,
                teamUploadCounts, teams,
                uploading, analyzing, batch, fetches, matchError, trace,
                batches>>
adminVars == <<adminTeams, adminFetches, adminMatchError, editDialogOpen,
               selectedScreenshot,
               editPlacement, editKills, adminToast, edits>>
calcVars == <<calcIn, calcOut>>
authVars == <<sessions, authUser, nextUserId, route, authPage, indexPage,
              logins>>
galleryVars == <<deleting, deletes>>
otherVars == <<calcVars, authVars, galleryVars>>
vars == <<dbVars, playerVars, adminVars, calcVars, authVars, galleryVars>>

\* ------------------------------------------------------------------- table

\* A row of match_screenshots as the clients write it.
Row(id, team, player, day, url, placement, kills, points) ==
    [id |-> id, team_id |-> team, player_id |-> player, day |-> day,
     screenshot_url |-> url, placement |-> placement, kills |-> kills,
     points |-> points]

\* The day column without its CHECK.
DayCheckNone(day) == TRUE

\* CHECK (day >= 1 AND day <= 3) of the day column.
DayCheck(day) == day >= MinDay /\ day <= MaxDay

\* team_id: null of a session without a team.
NoTeam == "none"

\* The team_id of the user's sessions row (null without a row).
SessionTeam(table, user) ==
    LET rows == SelectSeq(table, LAMBDA r : r.user_id = user)
    IN IF rows = <<>> THEN NoTeam ELSE rows[1].team_id

\* An insert policy that admits only rows for the team of the user's session.
InsertPolicyOwnTeam(sessionTeam, row) == row.team_id = sessionTeam

\* "Authenticated users can insert screenshots for any team": FOR INSERT TO
\* authenticated WITH CHECK (true), for a user whose session has sessionTeam.
InsertPolicy(sessionTeam, row) == TRUE

\* The table after an insert of `row` that reaches the database: the row is
\* appended when the CHECK constraint accepts it and the table is left alone
\* (the insert returns an error) otherwise.
InsertRow(table, row) ==
    IF DayCheck(row.day) THEN Append(table, row) ELSE table

\* The update without its .eq("id", id) filter.
UpdateRowAll(table, id, placement, kills, points) ==
    [n \in 1..Len(table) |->
        [table[n] EXCEPT !.placement = placement, !.kills = kills,
                         !.points = points]]

\* .update({placement, kills, points}).eq("id", id)
UpdateRow(table, id, placement, kills, points) ==
    [n \in 1..Len(table) |->
        IF table[n].id = id
        THEN [table[n] EXCEPT !.placement = placement, !.kills = kills,
                              !.points = points]
        ELSE table[n]]

\* The result of select("team_id, placement, kills, points") on the table:
\* the rows, or null data when the query fails.
SelectMatches(table, ok) ==
    IF ok THEN [error |-> FALSE, data |-> table]
          ELSE [error |-> TRUE, data |-> <<>>]

\* ---------------------------------------------------------------- standings

\* matches?.filter((m) => m.team_id === team.id) || []
TeamMatches(res, t) ==
    IF res.error THEN <<>>
    ELSE SelectSeq(res.data, LAMBDA m : m.team_id = t)

\* The wins counted with a null placement read as a first place.
FirstPlaceWinsOrOne(ms) ==
    Len(SelectSeq(ms, LAMBDA m : OrOne(m.placement) = 1))

\* teamMatches.filter((m) => m.placement === 1).length
FirstPlaceWins(ms) == Len(SelectSeq(ms, LAMBDA m : m.placement = 1))

\* PlayerDashboard.fetchTeams: the forEach loop over a team's matches.
RECURSIVE PlayerLoop(_, _)
PlayerLoop(ms, acc) ==
    IF ms = <<>> THEN acc
    ELSE PlayerLoop(Tail(ms),
           [totalKills |-> acc.totalKills + OrZero(Head(ms).kills),
            totalPoints |-> acc.totalPoints + OrZero(Head(ms).points),
            placementPoints |-> acc.placementPoints
                + OrZero(PLACEMENT_POINTS_Player(OrZero(Head(ms).placement)))])

PlayerTeamStats(res, t) ==
    LET ms == TeamMatches(res, t)
        acc == PlayerLoop(ms, [totalKills |-> 0, totalPoints |-> 0,
                               placementPoints |-> 0])
    IN [totalPoints |-> acc.totalPoints,
        placementPoints |-> acc.placementPoints,
        killPoints |-> acc.totalKills,
        totalKills |-> acc.totalKills,
        matchesPlayed |-> Len(ms),
        firstPlaceWins |-> FirstPlaceWins(ms)]

\* uploadCounts[team.id] = teamMatches.length
PlayerUploadCounts(data, res) == [t \in data |-> Len(TeamMatches(res, t))]

\* The reduce over the points stopping after the first match.
RECURSIVE AdminReducePointsFirst(_, _)
AdminReducePointsFirst(ms, sum) ==
    IF ms = <<>> THEN sum ELSE sum + OrZero(Head(ms).points)

\* The placement loop with a null placement read as a first place.
RECURSIVE AdminPlacementLoopOrOne(_, _)
AdminPlacementLoopOrOne(ms, placementPoints) ==
    IF ms = <<>> THEN placementPoints
    ELSE AdminPlacementLoopOrOne(Tail(ms), placementPoints
            + OrZero(PLACEMENT_POINTS_Admin(OrOne(Head(ms).placement))))

\* AdminDashboard.fetchTeams: the two reduce calls and the forEach loop.
RECURSIVE AdminReducePoints(_, _)
AdminReducePoints(ms, sum) ==
    IF ms = <<>> THEN sum
    ELSE AdminReducePoints(Tail(ms), sum + OrZero(Head(ms).points))

RECURSIVE AdminReduceKills(_, _)
AdminReduceKills(ms, sum) ==
    IF ms = <<>> THEN sum
    ELSE AdminReduceKills(Tail(ms), sum + OrZero(Head(ms).kills))

RECURSIVE AdminPlacementLoop(_, _)
AdminPlacementLoop(ms, placementPoints) ==
    IF ms = <<>> THEN placementPoints
    ELSE AdminPlacementLoop(Tail(ms), placementPoints
            + OrZero(PLACEMENT_POINTS_Admin(OrZero(Head(ms).placement))))

AdminTeamStats(res, t) ==
    LET ms == TeamMatches(res, t)
    IN [totalPoints |-> AdminReducePoints(ms, 0),
        placementPoints |-> AdminPlacementLoop(ms, 0),
        killPoints |-> AdminReduceKills(ms, 0),
        totalKills |-> AdminReduceKills(ms, 0),
        matchesPlayed |-> Len(ms),
        firstPlaceWins |-> FirstPlaceWins(ms)]

\* ------------------------------------------------------ PlayerDashboard

\* teamUploadCounts[selectedTeamId] || 0 (a team the state does not hold yet
\* counts 0: teamUploadCounts starts as {}).
CurrentUploads(counts, t) ==
    IF t \in DOMAIN counts THEN OrZero(counts[t]) ELSE 0

\* const canUploadMore = selectedTeamId && (teamUploadCounts[selectedTeamId] || 0) < 12
canUploadMore(c) ==
    selectedTeamId[c] # ""
    /\ CurrentUploads(teamUploadCounts[c], selectedTeamId[c]) < MaxUploads

\* A file input that is never disabled.
InputEnabledAlways(c) == TRUE

\* disabled={!selectedTeamId || uploading || analyzing} of the file input.
InputEnabled(c) == selectedTeamId[c] # "" /\ ~uploading[c] /\ ~analyzing[c]

\* handleFileUpload's checks without the two checks of the team cap.
BatchCheckNoCap(files, team, currentUploads) ==
    IF Len(files) = 0 THEN "none"
    ELSE IF team = "" THEN "select_team"
    ELSE IF Len(files) > MaxBatchFiles THEN "max4"
    ELSE IF \E n \in 1..Len(files) : ~files[n] THEN "not_image"
    ELSE "accept"

\* handleFileUpload's checks with the cap compared by > instead of >=.
BatchCheckOffByOne(files, team, currentUploads) ==
    IF Len(files) = 0 THEN "none"
    ELSE IF team = "" THEN "select_team"
    ELSE IF currentUploads > MaxUploads THEN "max12"
    ELSE IF currentUploads + Len(files) > MaxUploads + 1 THEN "remaining"
    ELSE IF Len(files) > MaxBatchFiles THEN "max4"
    ELSE IF \E n \in 1..Len(files) : ~files[n] THEN "not_image"
    ELSE "accept"

\* handleFileUpload's checks without the check of the files' types.
BatchCheckAnyType(files, team, currentUploads) ==
    IF Len(files) = 0 THEN "none"
    ELSE IF team = "" THEN "select_team"
    ELSE IF currentUploads >= MaxUploads THEN "max12"
    ELSE IF currentUploads + Len(files) > MaxUploads THEN "remaining"
    ELSE IF Len(files) > MaxBatchFiles THEN "max4"
    ELSE "accept"

\* The outcome of handleFileUpload's checks, in the order of the code: the
\* toast of the first check that rejects the batch, "accept" when none does,
\* "none" for an empty selection (the handler returns without a toast).
BatchCheck(files, team, currentUploads) ==
    IF Len(files) = 0 THEN "none"
    ELSE IF team = "" THEN "select_team"
    ELSE IF currentUploads >= MaxUploads THEN "max12"
    ELSE IF currentUploads + Len(files) > MaxUploads THEN "remaining"
    ELSE IF Len(files) > MaxBatchFiles THEN "max4"
    ELSE IF \E n \in 1..Len(files) : ~files[n] THEN "not_image"
    ELSE "accept"

\* handleFileUpload's locals before the first call. `progress` is the state
\* uploadProgress: <<>> for "", <<k, n>> for `Processing k of n...`.
IdleBatch ==
    [pc |-> "idle", files |-> <<>>, i |-> 0, successCount |-> 0, failCount |-> 0,
     tournament |-> "", team |-> "", day |-> 0, currentUploads |-> 0,
     publicUrl |-> 0, progress |-> <<>>,
     placement |-> NULL, kills |-> NULL, points |-> NULL]

\* The file selections a player makes: each file is an image (TRUE) or not.
FileInputs ==
    {<<>>, <<TRUE>>, <<TRUE, TRUE>>, <<TRUE, FALSE>>,
     <<TRUE, TRUE, TRUE, TRUE, TRUE>>}

\* What analyze-screenshot returns: an error, or {placement, kills}, each an
\* integer or null.
AnalysisResults ==
    {[error |-> TRUE, placement |-> NULL, kills |-> NULL],
     [error |-> FALSE, placement |-> NULL, kills |-> 0],
     [error |-> FALSE, placement |-> 1, kills |-> NULL],
     [error |-> FALSE, placement |-> 1, kills |-> 0]}

\* The null test on the kills alone.
ExtractionFailedKillsOnly(res) == res.kills = NULL

\* The null test with && in place of ||.
ExtractionFailedBoth(res) == res.placement = NULL /\ res.kills = NULL

\* placement === null || kills === null
ExtractionFailed(res) == res.placement = NULL \/ res.kills = NULL

\* One entry of `trace`: the file's index, the call, and whether the call
\* succeeded (for the analysis: no error and both fields extracted).
Event(i, step, ok) == [file |-> i, step |-> step, ok |-> ok]

\* A failure path that removes the stored object.
FailedFileStorageRollback(st, url) == st \ {url}

\* The bucket after a file failed behind its storage upload (analysisError, a
\* null field, dbError, the per-file catch): failCount++ and the loop goes on;
\* nothing removes the stored object.
FailedFileStorage(st, url) == st

uiVars == <<mounted, tournamentVars, selectedTeamId, selectedDay>>

\* One fetchTeams call in flight.
Fetch(q, tid) == [q |-> q, tid |-> tid]
fetchVars == <<teamUploadCounts, teams, matchError>>

\* The Select of the team: onValueChange={setSelectedTeamId}.
SelectTeam(c, t) ==
    /\ c \in mounted
    /\ selectedTournamentId[c] # ""
    /\ t \in allTeams[c]
    /\ selectedTeamId[c] # t
    /\ selectedTeamId' = [selectedTeamId EXCEPT ![c] = t]
    /\ UNCHANGED <<dbVars, adminVars, otherVars, mounted, tournamentVars,
                   selectedDay, fetchVars, fetches, uploading, analyzing, batch,
                   trace, batches>>

\* The Select of the day: onValueChange={(v) => setSelectedDay(parseInt(v))}.
SelectDay(c, d) ==
    /\ c \in mounted
    /\ selectedDay[c] # d
    /\ selectedDay' = [selectedDay EXCEPT ![c] = d]
    /\ UNCHANGED <<dbVars, adminVars, otherVars, mounted, tournamentVars,
                   selectedTeamId, fetchVars, fetches, uploading, analyzing,
                   batch, trace, batches>>

\* handleFileUpload up to the loop: the checks, then setUploading(true).
HandleFileUpload(c, files) ==
    LET currentUploads == CurrentUploads(teamUploadCounts[c], selectedTeamId[c])
        verdict == BatchCheck(files, selectedTeamId[c], currentUploads)
    IN /\ c \in mounted
       /\ InputEnabled(c)
       /\ batches' = batches + 1
       /\ IF verdict = "accept"
          THEN /\ uploading' = [uploading EXCEPT ![c] = TRUE]
               /\ batch' = [batch EXCEPT ![c] =
                              [IdleBatch EXCEPT !.pc = "upload", !.files = files,
                                  !.progress = <<1, Len(files)>>,
                                  !.tournament = selectedTournamentId[c],
                                  !.team = selectedTeamId[c],
                                  !.day = selectedDay[c],
                                  !.currentUploads = currentUploads]]
               /\ trace' = [trace EXCEPT ![c] = <<>>]
          ELSE /\ trace' = [trace EXCEPT ![c] =
                              IF verdict = "none" THEN @
                              ELSE <<Event(0, verdict, FALSE)>>]
               /\ UNCHANGED <<uploading, batch>>
       /\ UNCHANGED <<dbVars, adminVars, otherVars, uiVars, fetchVars, fetches,
                      analyzing>>

\* The loop's step without the increment: the same file again.
NextFileSame(i) == i

\* for (let i = 0; i < files.length; i++): the index of the next iteration.
NextFile(i) == i + 1

\* A failure that is not counted.
CountFailedNot(b) == b

\* failCount++ of the failure paths, successCount++ after the insert.
CountFailed(b) == [b EXCEPT !.failCount = b.failCount + 1]
CountSucceeded(b) == [b EXCEPT !.successCount = b.successCount + 1]

\* The end of one iteration of the loop: the next file, or after the last one
\* the result toasts (successCount and failCount stay readable in `batch`),
\* fetchTeams() (not awaited) and the finally block.
\* `b` is the batch after the iteration, `an` the value of analyzing it left.
EndOfFile(c, b, an) ==
    IF NextFile(b.i) < Len(b.files)
    THEN /\ batch' = [batch EXCEPT ![c] =
                        [b EXCEPT !.i = NextFile(b.i), !.pc = "upload",
                                  !.progress = <<NextFile(b.i) + 1, Len(b.files)>>,
                                  !.publicUrl = 0,
                                  !.placement = NULL, !.kills = NULL,
                                  !.points = NULL]]
         /\ analyzing' = [analyzing EXCEPT ![c] = an]
         /\ UNCHANGED <<uploading, fetches>>
    ELSE /\ batch' = [batch EXCEPT ![c] =
                        [b EXCEPT !.i = 0, !.pc = "idle", !.progress = <<>>,
                                  !.publicUrl = 0,
                                  !.placement = NULL, !.kills = NULL,
                                  !.points = NULL]]
         /\ fetches' = [fetches EXCEPT ![c] =
                           IF b.tournament = "" THEN @
                           ELSE @ \cup {Fetch("teams", b.tournament)}]
         /\ uploading' = [uploading EXCEPT ![c] = FALSE]
         /\ analyzing' = [analyzing EXCEPT ![c] = FALSE]

\* supabase.storage.from("match-screenshots").upload(fileName, file) returns.
\* On an error the code throws into the per-file catch (failCount++).
StorageUpload(c, ok) ==
    LET b == batch[c]
    IN /\ b.pc = "upload"
       /\ trace' = [trace EXCEPT ![c] = Append(@, Event(b.i, "upload", ok))]
       /\ IF ok
          THEN /\ storage' = storage \cup {nextObj}
               /\ nextObj' = nextObj + 1
               /\ batch' = [batch EXCEPT ![c] =
                              [b EXCEPT !.pc = "analyze", !.publicUrl = nextObj]]
               /\ analyzing' = [analyzing EXCEPT ![c] = TRUE]
               /\ UNCHANGED <<uploading, fetches>>
          ELSE /\ EndOfFile(c, CountFailed(b), analyzing[c])
               /\ UNCHANGED <<storage, nextObj>>
       /\ UNCHANGED <<match_screenshots, nextRowId, apiInserts, adminVars,
                      otherVars, uiVars, fetchVars, batches>>

\* supabase.functions.invoke("analyze-screenshot") returns: setAnalyzing(false),
\* then failCount++ on an error or a null field, else the points are computed
\* and the insert is issued.
Analyze(c, res) ==
    LET b == batch[c]
        failed == res.error \/ ExtractionFailed(res)
        extracted == ~res.error /\ res.placement # NULL /\ res.kills # NULL
    IN /\ b.pc = "analyze"
       /\ trace' = [trace EXCEPT ![c] =
                      Append(@, Event(b.i, "analyze", extracted))]
       /\ IF ~failed
          THEN /\ batch' = [batch EXCEPT ![c] =
                              [b EXCEPT !.pc = "insert",
                                  !.placement = res.placement,
                                  !.kills = res.kills,
                                  !.points = UploadPoints(res.placement, res.kills)]]
               /\ analyzing' = [analyzing EXCEPT ![c] = FALSE]
               /\ storage' = storage
               /\ UNCHANGED <<uploading, fetches>>
          ELSE /\ EndOfFile(c, CountFailed(b), FALSE)
               /\ storage' = FailedFileStorage(storage, b.publicUrl)
       /\ UNCHANGED <<match_screenshots, nextRowId, nextObj, apiInserts,
                      adminVars, otherVars, uiVars, fetchVars, batches>>

\* supabase.from("match_screenshots").insert({...}) returns: the row is in the
\* table and successCount++, or dbError and failCount++.
InsertScreenshot(c, ok) ==
    LET b == batch[c]
        row == Row(nextRowId, b.team, c, b.day, b.publicUrl, b.placement,
                   b.kills, b.points)
        table == IF ok /\ InsertPolicy(SessionTeam(sessions, c), row)
                 THEN InsertRow(match_screenshots, row)
                 ELSE match_screenshots
        done == table # match_screenshots
    IN /\ b.pc = "insert"
       /\ trace' = [trace EXCEPT ![c] = Append(@, Event(b.i, "insert", done))]
       /\ match_screenshots' = table
       /\ nextRowId' = IF done THEN nextRowId + 1 ELSE nextRowId
       /\ storage' = IF done THEN storage
                     ELSE FailedFileStorage(storage, b.publicUrl)
       /\ EndOfFile(c, IF done THEN CountSucceeded(b) ELSE CountFailed(b),
                    analyzing[c])
       /\ UNCHANGED <<nextObj, apiInserts, adminVars, otherVars, uiVars,
                      fetchVars, batches>>

\* fetchTeams is called: by the 5-second interval, and by fetchTeamsForTournament.
\* The teams query is issued.
FetchTeams(c) ==
    /\ c \in mounted
    /\ selectedTournamentId[c] # ""
    /\ Fetch("teams", selectedTournamentId[c]) \notin fetches[c]
    /\ fetches' = [fetches EXCEPT ![c] =
                     @ \cup {Fetch("teams", selectedTournamentId[c])}]
    /\ UNCHANGED <<dbVars, adminVars, otherVars, uiVars, fetchVars, uploading,
                   analyzing, batch, trace, batches>>

\* The teams query of fetchTeams returns: on an error fetchTeams returns,
\* else the match_screenshots query is issued.
FetchTeamsData(c, ok) ==
    /\ \E f \in fetches[c] :
          /\ f.q = "teams"
          /\ fetches' = [fetches EXCEPT ![c] =
                           IF ok THEN (@ \ {f}) \cup {Fetch("matches", f.tid)}
                           ELSE @ \ {f}]
    /\ UNCHANGED <<dbVars, adminVars, otherVars, uiVars, fetchVars, uploading,
                   analyzing, batch, trace, batches>>

\* The match_screenshots query of fetchTeams returns (allMatches is null when
\* it failed): setTeamUploadCounts, setTeams.
FetchTeamsMatches(c, ok) ==
    LET allMatches == SelectMatches(match_screenshots, ok)
    IN /\ \E f \in fetches[c] :
             LET data == TournamentTeams(f.tid)
             IN /\ f.q = "matches"
                /\ fetches' = [fetches EXCEPT ![c] = @ \ {f}]
                /\ teamUploadCounts' = [teamUploadCounts EXCEPT ![c] =
                                          PlayerUploadCounts(data, allMatches)]
                /\ teams' = [teams EXCEPT ![c] =
                               [t \in data |-> PlayerTeamStats(allMatches, t)]]
       /\ matchError' = [matchError EXCEPT ![c] = allMatches.error]
       /\ UNCHANGED <<dbVars, adminVars, otherVars, uiVars, uploading, analyzing,
                      batch, trace, batches>>

\* The Select of the tournament: onValueChange={setSelectedTournamentId}; the
\* effect on [selectedTournamentId] calls fetchTeamsForTournament, which issues
\* its teams query for the tournament just selected.
SelectTournament(c, tid) ==
    /\ c \in mounted
    /\ selectedTournamentId[c] # tid
    /\ selectedTournamentId' = [selectedTournamentId EXCEPT ![c] = tid]
    /\ teamListFetches' = [teamListFetches EXCEPT ![c] = @ \cup {tid}]
    /\ UNCHANGED <<dbVars, adminVars, otherVars, mounted, allTeams,
                   selectedTeamId, selectedDay, fetchVars, fetches, uploading,
                   analyzing, batch, trace, batches>>

\* The teams query of fetchTeamsForTournament returns: with data it sets
\* allTeams and resets the team selection; in either case fetchTeams() is
\* called, for the tournament fetchTeamsForTournament was called for.
FetchTeamsForTournament(c, tid, ok) ==
    /\ tid \in teamListFetches[c]
    /\ teamListFetches' = [teamListFetches EXCEPT ![c] = @ \ {tid}]
    /\ IF ok
       THEN /\ allTeams' = [allTeams EXCEPT ![c] = TournamentTeams(tid)]
            /\ selectedTeamId' = [selectedTeamId EXCEPT ![c] = ""]
       ELSE UNCHANGED <<allTeams, selectedTeamId>>
    /\ fetches' = [fetches EXCEPT ![c] = @ \cup {Fetch("teams", tid)}]
    /\ UNCHANGED <<dbVars, adminVars, otherVars, mounted, selectedTournamentId,
                   selectedDay, fetchVars, uploading, analyzing, batch, trace,
                   batches>>

\* ------------------------------------------------------- AdminDashboard

editVars == <<editDialogOpen, selectedScreenshot, editPlacement, editKills,
              adminToast, edits>>

\* fetchTeams is called by the effect or its 5-second interval.
AdminFetchTeams ==
    /\ "teams" \notin adminFetches
    /\ adminFetches' = adminFetches \cup {"teams"}
    /\ UNCHANGED <<dbVars, playerVars, otherVars, adminTeams, adminMatchError,
                   editVars>>

\* The teams query returns: on teamsError fetchTeams returns.
AdminFetchTeamsData(ok) ==
    /\ "teams" \in adminFetches
    /\ adminFetches' = IF ok THEN (adminFetches \ {"teams"}) \cup {"matches"}
                       ELSE adminFetches \ {"teams"}
    /\ UNCHANGED <<dbVars, playerVars, otherVars, adminTeams, adminMatchError,
                   editVars>>

\* The match_screenshots query returns (matchError is logged and matchData is
\* null then): setTeams(teamsWithStats).
AdminFetchTeamsMatches(ok) ==
    LET matchData == SelectMatches(match_screenshots, ok)
    IN /\ "matches" \in adminFetches
       /\ adminFetches' = adminFetches \ {"matches"}
       /\ adminMatchError' = matchData.error
       /\ adminTeams' = [t \in Teams |-> AdminTeamStats(matchData, t)]
       /\ UNCHANGED <<dbVars, playerVars, otherVars, editVars>>

\* --------------------------------------------------- ScreenshotVerification

\* What the administrator picks in the placement select and types into the
\* kills input (parseInt(value) || 0; min="0" does not stop a typed "-1").
EditPlacementInputs == {2, MaxEditPlacement}
EditKillsInputs == {-1, MaxKills}

\* handleEdit(screenshot) on a listed row.
handleEdit(n) ==
    /\ n \in 1..Len(match_screenshots)
    /\ ~editDialogOpen
    /\ selectedScreenshot' = match_screenshots[n].id
    /\ editPlacement' = OrOne(match_screenshots[n].placement)
    /\ editKills' = OrZero(match_screenshots[n].kills)
    /\ editDialogOpen' = TRUE
    /\ UNCHANGED <<dbVars, playerVars, otherVars, adminTeams, adminFetches,
                   adminMatchError, adminToast, edits>>

\* onValueChange={(value) => setEditPlacement(parseInt(value))}
SetEditPlacement(v) ==
    /\ editDialogOpen
    /\ editPlacement # v
    /\ editPlacement' = v
    /\ UNCHANGED <<dbVars, playerVars, otherVars, adminTeams, adminFetches,
                   adminMatchError, editDialogOpen, selectedScreenshot,
                   editKills, adminToast, edits>>

\* onChange={(e) => setEditKills(parseInt(e.target.value) || 0)}
SetEditKills(v) ==
    /\ editDialogOpen
    /\ editKills # v
    /\ editKills' = v
    /\ UNCHANGED <<dbVars, playerVars, otherVars, adminTeams, adminFetches,
                   adminMatchError, editDialogOpen, selectedScreenshot,
                   editPlacement, adminToast, edits>>

\* Cancel, or the dialog's onOpenChange.
CloseEditDialog ==
    /\ editDialogOpen
    /\ editDialogOpen' = FALSE
    /\ UNCHANGED <<dbVars, playerVars, otherVars, adminTeams, adminFetches,
                   adminMatchError, selectedScreenshot, editPlacement,
                   editKills, adminToast, edits>>

\* handleUpdate: the update of the selected row returns.
handleUpdate(ok) ==
    LET newPoints == calculatePoints(editPlacement, editKills)
    IN /\ editDialogOpen
       /\ selectedScreenshot # NULL
       /\ edits' = edits + 1
       /\ IF ok
          THEN /\ match_screenshots' =
                    UpdateRow(match_screenshots, selectedScreenshot,
                              editPlacement, editKills, newPoints)
               /\ editDialogOpen' = FALSE
               /\ adminToast' = "updated"
          ELSE /\ adminToast' = "failed"
               /\ UNCHANGED <<match_screenshots, editDialogOpen>>
       /\ UNCHANGED <<storage, nextRowId, nextObj, apiInserts, playerVars,
                      otherVars, adminTeams, adminFetches, adminMatchError,
                      selectedScreenshot, editPlacement, editKills>>

\* --------------------------------------------------------------- table API

\* An insert by an authenticated user through the table's API rather than the
\* dashboard: the policy "Authenticated users can insert screenshots for any
\* team" (WITH CHECK (true)) lets it through, the day CHECK decides.
\* apiInserts keeps the days of the inserts attempted.
ApiDays == (MinDay - 1)..(MaxDay + 1)
ApiInsert(c, t, day) ==
    LET row == Row(nextRowId, t, c, day, 0, NULL, NULL, NULL)
        table == IF InsertPolicy(SessionTeam(sessions, c), row)
                 THEN InsertRow(match_screenshots, row)
                 ELSE match_screenshots
    IN /\ c \in mounted
       /\ match_screenshots' = table
       /\ nextRowId' = IF table # match_screenshots THEN nextRowId + 1
                       ELSE nextRowId
       /\ apiInserts' = Append(apiInserts, day)
       /\ UNCHANGED <<storage, nextObj, playerVars, adminVars, otherVars>>

\* -------------------------------------------------------------------- Auth

\* The characters of an access code, and String.toUpperCase on one.
UpperChar(ch) == CASE ch = "a" -> "A" [] ch = "b" -> "B" [] OTHER -> ch

\* String.prototype.toUpperCase
ToUpperCase(str) == [n \in 1..Len(str) |-> UpperChar(str[n])]

\* String.prototype.trim
RECURSIVE TrimStart(_)
TrimStart(str) ==
    IF str # <<>> /\ Head(str) = " " THEN TrimStart(Tail(str)) ELSE str

RECURSIVE TrimEnd(_)
TrimEnd(str) ==
    IF str # <<>> /\ str[Len(str)] = " "
    THEN TrimEnd(SubSeq(str, 1, Len(str) - 1)) ELSE str

Trim(str) == TrimEnd(TrimStart(str))

\* What the user types into the access code field.
TypedCodes == {<<" ">>, <<" ", "a">>, <<"A", " ">>, <<"b">>}

\* What rpc("validate_access_code").single() returns: an error, no data, or
\* the role and team of the code.
ValidateResults ==
    {[error |-> TRUE, found |-> FALSE, role |-> "", team_id |-> NoTeam],
     [error |-> FALSE, found |-> FALSE, role |-> "", team_id |-> NoTeam],
     [error |-> FALSE, found |-> TRUE, role |-> "admin", team_id |-> NoTeam],
     [error |-> FALSE, found |-> TRUE, role |-> "player", team_id |-> "A"]}

\* The Auth page after mount and between calls of its handlers.
IdleAuth(accessCode, toast) ==
    [accessCode |-> accessCode, loading |-> FALSE, pc |-> "idle", user |-> NULL,
     input_code |-> <<>>, codeData |-> [role |-> "", team_id |-> NoTeam],
     toast |-> toast]

\* Index before checkAuth has set its state.
IdleIndex == [userId |-> NULL, userRole |-> "", loading |-> TRUE]

\* A sessions row that always makes a player without a team.
AccessCodeSessionPlayer(user, code, codeData) ==
    [user_id |-> user, code_used |-> code, role |-> "player",
     team_id |-> NoTeam]

\* handleAccessCode: the row inserted into sessions.
AccessCodeSession(user, code, codeData) ==
    [user_id |-> user, code_used |-> code, role |-> codeData.role,
     team_id |-> codeData.team_id]

\* handlePlayerAccess: the row inserted into sessions.
PlayerSession(user) ==
    [user_id |-> user, code_used |-> <<"PLAYER_DIRECT">>, role |-> "player",
     team_id |-> NoTeam]

\* An insert that replaces the table's rows.
InsertSessionReplace(table, row) == <<row>>

\* from("sessions").insert(row)
InsertSession(table, row) == Append(table, row)

\* A sign-out that also removes the user's sessions rows.
SignOutSessionsDelete(table, user) ==
    SelectSeq(table, LAMBDA r : r.user_id # user)

\* The sessions table after supabase.auth.signOut() for `user`: the auth
\* session ends, the table is not touched.
SignOutSessions(table, user) == table

\* onChange={(e) => setAccessCode(e.target.value.toUpperCase())}
SetAccessCode(typed) ==
    /\ route = "/auth"
    /\ authPage.pc = "idle"
    /\ authPage.accessCode # ToUpperCase(typed)
    /\ authPage' = [authPage EXCEPT !.accessCode = ToUpperCase(typed)]
    /\ UNCHANGED <<dbVars, playerVars, adminVars, calcVars, galleryVars,
                   sessions, authUser, nextUserId, route, indexPage, logins>>

\* Auth's effect on mount: getSession(), and navigate("/") when there is one.
AuthMount ==
    /\ route = "/auth"
    /\ authPage.pc = "idle"
    /\ authUser # NULL
    /\ route' = "/"
    /\ indexPage' = IdleIndex
    /\ UNCHANGED <<dbVars, playerVars, adminVars, calcVars, galleryVars,
                   sessions, authUser, nextUserId, authPage, logins>>

\* handleAccessCode up to the rpc: the empty-code check, signInAnonymously
\* (a new anonymous user, or an error), then validate_access_code is called.
HandleAccessCode(ok) ==
    /\ route = "/auth"
    /\ authPage.pc = "idle"
    /\ logins' = logins + 1
    /\ IF Trim(authPage.accessCode) = <<>>
       THEN /\ authPage' = [authPage EXCEPT !.toast = "enter_code"]
            /\ UNCHANGED <<authUser, nextUserId>>
       ELSE IF ~ok
       THEN /\ authPage' = [authPage EXCEPT !.toast = "auth_failed"]
            /\ UNCHANGED <<authUser, nextUserId>>
       ELSE /\ authUser' = nextUserId
            /\ nextUserId' = nextUserId + 1
            /\ authPage' = [authPage EXCEPT
                   !.loading = TRUE, !.pc = "validate", !.user = nextUserId,
                   !.input_code = ToUpperCase(Trim(authPage.accessCode)),
                   !.toast = ""]
    /\ UNCHANGED <<dbVars, playerVars, adminVars, calcVars, galleryVars,
                   sessions, route, indexPage>>

\* validate_access_code returns: on an error or no data signOut() and the
\* toast, else the insert into sessions is issued.
ValidateAccessCode(res) ==
    /\ authPage.pc = "validate"
    /\ IF res.error \/ ~res.found
       THEN /\ sessions' = SignOutSessions(sessions, authPage.user)
            /\ authUser' = NULL
            /\ authPage' = IdleAuth(authPage.accessCode, "invalid_code")
       ELSE /\ authPage' = [authPage EXCEPT !.pc = "insert",
                   !.codeData = [role |-> res.role, team_id |-> res.team_id]]
            /\ UNCHANGED <<sessions, authUser>>
    /\ UNCHANGED <<dbVars, playerVars, adminVars, calcVars, galleryVars,
                   nextUserId, route, indexPage, logins>>

\* The insert into sessions of handleAccessCode returns: on sessionError
\* signOut() and the toast, else the welcome toast and navigate("/").
AccessCodeSessionInsert(ok) ==
    /\ authPage.pc = "insert"
    /\ IF ok
       THEN /\ sessions' = InsertSession(sessions,
                  AccessCodeSession(authPage.user,
                      ToUpperCase(Trim(authPage.accessCode)), authPage.codeData))
            /\ route' = "/"
            /\ indexPage' = IdleIndex
            /\ authPage' = IdleAuth(authPage.accessCode, "welcome")
            /\ UNCHANGED authUser
       ELSE /\ sessions' = SignOutSessions(sessions, authPage.user)
            /\ authUser' = NULL
            /\ authPage' = IdleAuth(authPage.accessCode, "session_failed")
            /\ UNCHANGED <<route, indexPage>>
    /\ UNCHANGED <<dbVars, playerVars, adminVars, calcVars, galleryVars,
                   nextUserId, logins>>

\* handlePlayerAccess up to the insert: signInAnonymously, the wait, then the
\* insert into sessions is issued.
HandlePlayerAccess(ok) ==
    /\ route = "/auth"
    /\ authPage.pc = "idle"
    /\ logins' = logins + 1
    /\ IF ~ok
       THEN /\ authPage' = [authPage EXCEPT !.toast = "auth_failed"]
            /\ UNCHANGED <<authUser, nextUserId>>
       ELSE /\ authUser' = nextUserId
            /\ nextUserId' = nextUserId + 1
            /\ authPage' = [authPage EXCEPT !.loading = TRUE,
                   !.pc = "player_insert", !.user = nextUserId, !.toast = ""]
    /\ UNCHANGED <<dbVars, playerVars, adminVars, calcVars, galleryVars,
                   sessions, route, indexPage>>

\* The insert into sessions of handlePlayerAccess returns.
PlayerSessionInsert(ok) ==
    /\ authPage.pc = "player_insert"
    /\ IF ok
       THEN /\ sessions' = InsertSession(sessions, PlayerSession(authPage.user))
            /\ route' = "/"
            /\ indexPage' = IdleIndex
            /\ authPage' = IdleAuth(authPage.accessCode, "welcome")
            /\ UNCHANGED authUser
       ELSE /\ sessions' = SignOutSessions(sessions, authPage.user)
            /\ authUser' = NULL
            /\ authPage' = IdleAuth(authPage.accessCode, "session_failed")
            /\ UNCHANGED <<route, indexPage>>
    /\ UNCHANGED <<dbVars, playerVars, adminVars, calcVars, galleryVars,
                   nextUserId, logins>>

\* A remote call of handleAccessCode made after the sign-in (the rpc or the
\* insert) throws: the catch block logs and toasts, the finally block ends the
\* loading. The catch block does not call signOut().
AccessCodeThrows ==
    /\ authPage.pc \in {"validate", "insert"}
    /\ authPage' = IdleAuth(authPage.accessCode, "unexpected")
    /\ UNCHANGED <<dbVars, playerVars, adminVars, calcVars, galleryVars,
                   sessions, authUser, nextUserId, route, indexPage, logins>>

\* The insert of handlePlayerAccess throws: the same catch and finally.
PlayerAccessThrows ==
    /\ authPage.pc = "player_insert"
    /\ authPage' = IdleAuth(authPage.accessCode, "unexpected")
    /\ UNCHANGED <<dbVars, playerVars, adminVars, calcVars, galleryVars,
                   sessions, authUser, nextUserId, route, indexPage, logins>>

\* ------------------------------------------------------------------- Index

\* The browser opens "/" (the address is typed or the page reloaded there):
\* Index mounts with its initial state and its effect calls checkAuth.
OpenIndex ==
    /\ route = "/auth"
    /\ authPage.pc = "idle"
    /\ route' = "/"
    /\ indexPage' = IdleIndex
    /\ UNCHANGED <<dbVars, playerVars, adminVars, calcVars, galleryVars,
                   sessions, authUser, nextUserId, authPage, logins>>

\* A lookup that finds the role player when there is no row.
SessionRoleDefault(table, user, ok) ==
    LET rows == SelectSeq(table, LAMBDA r : r.user_id = user)
    IN IF ~ok \/ Len(rows) > 1 THEN [error |-> TRUE, role |-> ""]
       ELSE IF rows = <<>> THEN [error |-> FALSE, role |-> "player"]
       ELSE [error |-> FALSE, role |-> rows[1].role]

\* What Index renders: the spinner while loading, nothing without userId or
\* userRole, AdminDashboard for the role admin, PlayerDashboard otherwise.
IndexRenders ==
    IF route # "/" THEN "none"
    ELSE IF indexPage.loading THEN "spinner"
    ELSE IF indexPage.userId = NULL \/ indexPage.userRole = "" THEN "null"
    ELSE IF indexPage.userRole = "admin" THEN "AdminDashboard"
    ELSE "PlayerDashboard"

\* select("role").eq("user_id", user).maybeSingle(): the row's role, no row,
\* or an error (the query failed, or more than one row matched).
SessionRole(table, user, ok) ==
    LET rows == SelectSeq(table, LAMBDA r : r.user_id = user)
    IN IF ~ok \/ Len(rows) > 1 THEN [error |-> TRUE, role |-> ""]
       ELSE IF rows = <<>> THEN [error |-> FALSE, role |-> ""]
       ELSE [error |-> FALSE, role |-> rows[1].role]

\* checkAuth, called on mount and by onAuthStateChange with a session.
checkAuth(ok) ==
    LET res == SessionRole(sessions, authUser, ok)
    IN /\ route = "/"
       /\ indexPage.loading
       /\ IF authUser = NULL
          THEN /\ route' = "/auth"
               /\ indexPage' = IdleIndex
          ELSE IF res.error \/ res.role = ""
          THEN /\ route' = "/auth"
               /\ indexPage' = IdleIndex
          ELSE /\ indexPage' = [userId |-> authUser, userRole |-> res.role,
                                loading |-> FALSE]
               /\ route' = route
       /\ UNCHANGED <<dbVars, playerVars, adminVars, calcVars, galleryVars,
                      sessions, authUser, nextUserId, authPage, logins>>

\* handleSignOut of AdminDashboard: signOut(), navigate("/auth").
AdminHandleSignOut ==
    /\ route = "/"
    /\ indexPage.userRole = "admin"
    /\ sessions' = SignOutSessions(sessions, authUser)
    /\ authUser' = NULL
    /\ route' = "/auth"
    /\ indexPage' = IdleIndex
    /\ UNCHANGED <<dbVars, playerVars, adminVars, calcVars, galleryVars,
                   nextUserId, authPage, logins>>

\* handleSignOut of PlayerDashboard: signOut(); Index's onAuthStateChange
\* listener gets no session and navigates to "/auth".
PlayerHandleSignOut ==
    /\ route = "/"
    /\ indexPage.userRole = "player"
    /\ sessions' = SignOutSessions(sessions, authUser)
    /\ authUser' = NULL
    /\ route' = "/auth"
    /\ indexPage' = IdleIndex
    /\ UNCHANGED <<dbVars, playerVars, adminVars, calcVars, galleryVars,
                   nextUserId, authPage, logins>>

\* ------------------------------------------------------- ScreenshotGallery

\* A delete policy that lets every authenticated user through.
DeletePolicyAny(hasRole) == TRUE

\* "Admins can delete match screenshots": USING (has_role(auth.uid(),
\* 'admin')), given what has_role returns for the caller.
DeletePolicy(hasRole) == hasRole

\* from("match_screenshots").delete().eq("id", id) under the policy: rows the
\* policy hides from the caller are not deleted, and that is no error.
DeleteRow(table, id, hasRole) ==
    IF DeletePolicy(hasRole)
    THEN SelectSeq(table, LAMBDA r : r.id # id)
    ELSE table

\* handleDeleteScreenshot(screenshot.id, screenshot.screenshot_url) on the
\* listed row n, up to the storage call: with isAdmin false it returns.
handleDeleteScreenshot(isAdmin, n) ==
    /\ n \in 1..Len(match_screenshots)
    /\ deleting = <<>>
    /\ deletes' = Append(deletes, [by |-> "gallery", admin |-> isAdmin])
    /\ deleting' = IF isAdmin
                   THEN <<[pc |-> "storage", id |-> match_screenshots[n].id,
                           url |-> match_screenshots[n].screenshot_url]>>
                   ELSE <<>>
    /\ UNCHANGED <<dbVars, playerVars, adminVars, calcVars, authVars>>

\* A removal that leaves the object in the bucket.
RemoveObjectNever(st, url, ok) == st

\* storage.from("match-screenshots").remove([filePath]): the bucket after the
\* call, which removed the object or failed.
RemoveObject(st, url, ok) == IF ok THEN st \ {url} ELSE st

\* storage.remove([filePath]) returns; a storageError is logged and the
\* handler goes on to the table.
DeleteStorageReturns(ok) ==
    /\ deleting # <<>>
    /\ deleting[1].pc = "storage"
    /\ storage' = RemoveObject(storage, deleting[1].url, ok)
    /\ deleting' = <<[deleting[1] EXCEPT !.pc = "row"]>>
    /\ UNCHANGED <<match_screenshots, nextRowId, nextObj, apiInserts,
                   playerVars, adminVars, calcVars, authVars, deletes>>

\* The delete on match_screenshots returns: the toast of the failure or of
\* the success, then fetchScreenshots().
DeleteRowReturns(hasRole, ok) ==
    /\ deleting # <<>>
    /\ deleting[1].pc = "row"
    /\ match_screenshots' = IF ok
                            THEN DeleteRow(match_screenshots, deleting[1].id,
                                           hasRole)
                            ELSE match_screenshots
    /\ deleting' = <<>>
    /\ UNCHANGED <<storage, nextRowId, nextObj, apiInserts, playerVars,
                   adminVars, calcVars, authVars, deletes>>

\* A delete issued through the table's API by an authenticated user.
ApiDelete(hasRole, n) ==
    /\ n \in 1..Len(match_screenshots)
    /\ deletes' = Append(deletes, [by |-> "api", admin |-> hasRole])
    /\ match_screenshots' = DeleteRow(match_screenshots,
                                      match_screenshots[n].id, hasRole)
    /\ UNCHANGED <<storage, nextRowId, nextObj, apiInserts, playerVars,
                   adminVars, calcVars, authVars, deleting>>

\* ------------------------------------------------------- scoring, applied

\* The points handleFileUpload computes for the analysis result calcIn.
CalcUpload ==
    /\ calcIn.placement # NULL
    /\ calcOut.upload = NULL
    /\ calcOut' = [calcOut EXCEPT !.upload = UploadPoints(calcIn.placement, calcIn.kills)]
    /\ UNCHANGED <<dbVars, playerVars, adminVars, calcIn, authVars,
                   galleryVars>>

\* The points handleUpdate computes for the dialog's values calcIn.
CalcEdit ==
    /\ calcIn.placement # NULL
    /\ calcOut.edit = NULL
    /\ calcOut' = [calcOut EXCEPT !.edit = calculatePoints(calcIn.placement, calcIn.kills)]
    /\ UNCHANGED <<dbVars, playerVars, adminVars, calcIn, authVars,
                   galleryVars>>

\* ------------------------------------------------------------ specification

\* The backend when the dashboards are mounted: team A holds k rows, uploads of
\* an earlier session, each a first place without kills.
InitDb(k) ==
    /\ match_screenshots = [n \in 1..k |-> Row(n, "A", Earlier, 1, n, 1, 0, 10)]
    /\ storage = 1..k
    /\ nextRowId = k + 1
    /\ nextObj = k + 1
    /\ apiInserts = <<>>

\* The dashboards of the players in `ps` right after mount: the tournament is
\* selected, fetchTeamsForTournament has reset the team and called fetchTeams.
InitTournament(ps) ==
    /\ selectedTournamentId = [c \in Players |-> IF c \in ps THEN "T1" ELSE ""]
    /\ allTeams = [c \in Players |-> IF c \in ps THEN Teams ELSE {}]
    /\ teamListFetches = [c \in Players |-> {}]

InitPlayers(ps) ==
    /\ mounted = ps
    /\ InitTournament(ps)
    /\ selectedTeamId = [c \in Players |-> ""]
    /\ selectedDay = [c \in Players |-> 1]
    /\ teamUploadCounts = [c \in Players |-> [t \in Teams |-> NULL]]
    /\ teams = [c \in Players |-> <<>>]
    /\ uploading = [c \in Players |-> FALSE]
    /\ analyzing = [c \in Players |-> FALSE]
    /\ batch = [c \in Players |-> IdleBatch]
    /\ fetches = [c \in Players |->
                     IF c \in ps THEN {Fetch("teams", "T1")} ELSE {}]
    /\ matchError = [c \in Players |-> FALSE]
    /\ trace = [c \in Players |-> <<>>]
    /\ batches = 0

InitAdmin ==
    /\ adminTeams = <<>>
    /\ adminFetches = {}
    /\ adminMatchError = FALSE
    /\ editDialogOpen = FALSE
    /\ selectedScreenshot = NULL
    /\ editPlacement = 1
    /\ editKills = 0
    /\ adminToast = ""
    /\ edits = 0

InitCalc ==
    /\ calcIn = [placement |-> NULL, kills |-> NULL]
    /\ calcOut = [upload |-> NULL, edit |-> NULL]

\* The browser opens the application at "/" without a session.
InitAuth ==
    /\ sessions = <<>>
    /\ authUser = NULL
    /\ nextUserId = 1
    /\ route = "/"
    /\ authPage = IdleAuth(<<>>, "")
    /\ indexPage = IdleIndex
    /\ logins = 0

InitGallery ==
    /\ deleting = <<>>
    /\ deletes = <<>>

InitRest == InitAuth /\ InitGallery

\* One player's dashboard: every step of the upload pipeline and the refresh.
Init ==
    /\ InitDb(MaxUploads - 1)
    /\ InitPlayers({"p1"})
    /\ InitAdmin
    /\ InitCalc
    /\ InitRest

Next ==
    \/ \E c \in Players, t \in Teams : SelectTeam(c, t)
    \/ \E c \in Players, files \in FileInputs :
          batches < MaxBatches /\ HandleFileUpload(c, files)
    \/ \E c \in Players, ok \in BOOLEAN : StorageUpload(c, ok)
    \/ \E c \in Players, res \in AnalysisResults : Analyze(c, res)
    \/ \E c \in Players, ok \in BOOLEAN : InsertScreenshot(c, ok)
    \/ \E c \in Players : FetchTeams(c)
    \/ \E c \in Players, ok \in BOOLEAN : FetchTeamsData(c, ok)
    \/ \E c \in Players, ok \in BOOLEAN : FetchTeamsMatches(c, ok)

Spec == Init /\ [][Next]_vars

\* One player's dashboard, the only writer, after its first fetchTeams has
\* returned: the counts it holds are those of the table.
InitSolo ==
    /\ InitDb(MaxUploads - 1)
    /\ mounted = {"p1"}
    /\ InitTournament({"p1"})
    /\ selectedTeamId = [c \in Players |-> ""]
    /\ selectedDay = [c \in Players |-> 1]
    /\ teamUploadCounts =
          [c \in Players |->
             IF c = "p1"
             THEN PlayerUploadCounts(Teams,
                     SelectMatches(match_screenshots, TRUE))
             ELSE [t \in Teams |-> NULL]]
    /\ teams =
          [c \in Players |->
             IF c = "p1"
             THEN [t \in Teams |->
                     PlayerTeamStats(SelectMatches(match_screenshots, TRUE), t)]
             ELSE <<>>]
    /\ uploading = [c \in Players |-> FALSE]
    /\ analyzing = [c \in Players |-> FALSE]
    /\ batch = [c \in Players |-> IdleBatch]
    /\ fetches = [c \in Players |-> {}]
    /\ matchError = [c \in Players |-> FALSE]
    /\ trace = [c \in Players |-> <<>>]
    /\ batches = 0
    /\ InitAdmin
    /\ InitCalc
    /\ InitRest

SpecSolo == InitSolo /\ [][Next]_vars

\* Two players uploading single screenshots for team A, which holds 11 rows.
InitRace ==
    /\ InitDb(MaxUploads - 1)
    /\ InitPlayers(Players)
    /\ InitAdmin
    /\ InitCalc
    /\ InitRest

RaceAnalysis ==
    {[error |-> TRUE, placement |-> NULL, kills |-> NULL],
     [error |-> FALSE, placement |-> 1, kills |-> 0]}

NextRace ==
    \/ \E c \in Players : SelectTeam(c, "A")
    \/ \E c \in Players :
          batches < MaxBatches /\ HandleFileUpload(c, <<TRUE>>)
    \/ \E c \in Players : StorageUpload(c, TRUE)
    \/ \E c \in Players, res \in RaceAnalysis : Analyze(c, res)
    \/ \E c \in Players : InsertScreenshot(c, TRUE)
    \/ \E c \in Players : FetchTeams(c)
    \/ \E c \in Players, ok \in BOOLEAN : FetchTeamsData(c, ok)
    \/ \E c \in Players, ok \in BOOLEAN : FetchTeamsMatches(c, ok)

SpecRace == InitRace /\ [][NextRace]_vars

\* One player's uploads and the administrator's corrections and standings.
InitEdit ==
    /\ InitDb(0)
    /\ InitPlayers({"p1"})
    /\ InitAdmin
    /\ InitCalc
    /\ InitRest

EditAnalysis ==
    {[error |-> FALSE, placement |-> 1, kills |-> 0],
     [error |-> FALSE, placement |-> 9, kills |-> MaxKills]}

NextEdit ==
    \/ \E c \in Players : SelectTeam(c, "A")
    \/ \E c \in Players :
          batches < MaxEditBatches /\ HandleFileUpload(c, <<TRUE>>)
    \/ \E c \in Players : StorageUpload(c, TRUE)
    \/ \E c \in Players, res \in EditAnalysis : Analyze(c, res)
    \/ \E c \in Players : InsertScreenshot(c, TRUE)
    \/ AdminFetchTeams
    \/ AdminFetchTeamsData(TRUE)
    \/ \E ok \in BOOLEAN : AdminFetchTeamsMatches(ok)
    \/ \E n \in 1..Len(match_screenshots) : handleEdit(n)
    \/ \E v \in EditPlacementInputs : SetEditPlacement(v)
    \/ \E v \in EditKillsInputs : SetEditKills(v)
    \/ CloseEditDialog
    \/ \E ok \in BOOLEAN : edits < MaxEdits /\ handleUpdate(ok)

SpecEdit == InitEdit /\ [][NextEdit]_vars

\* One player choosing days, and inserts through the table API.
InitDay ==
    /\ InitDb(0)
    /\ InitPlayers({"p1"})
    /\ InitAdmin
    /\ InitCalc
    /\ InitRest

NextDay ==
    \/ \E c \in Players : SelectTeam(c, "A")
    \/ \E c \in Players, d \in MinDay..MaxDay : SelectDay(c, d)
    \/ \E c \in Players :
          batches < MaxBatches /\ HandleFileUpload(c, <<TRUE>>)
    \/ \E c \in Players : StorageUpload(c, TRUE)
    \/ \E c \in Players, res \in RaceAnalysis : Analyze(c, res)
    \/ \E c \in Players, ok \in BOOLEAN : InsertScreenshot(c, ok)
    \/ \E c \in Players, day \in ApiDays :
          Len(apiInserts) < MaxApiInserts /\ ApiInsert(c, "A", day)

SpecDay == InitDay /\ [][NextDay]_vars

\* The scoring function on every placement and kill count of the bounds.
InitScore ==
    /\ InitDb(0)
    /\ InitPlayers({})
    /\ InitAdmin
    /\ calcIn \in [placement : (-1)..MaxPlacement, kills : 0..MaxScoreKills]
    /\ calcOut = [upload |-> NULL, edit |-> NULL]
    /\ InitRest

NextScore == CalcUpload \/ CalcEdit

SpecScore == InitScore /\ [][NextScore]_vars

\* The standings aggregation of both dashboards on every table of the bounds,
\* null columns included; the teams query of each fetchTeams has returned.
AggRows ==
    {Row(0, t, Earlier, 1, 0, p, k, pts) :
        t \in Teams, p \in {NULL, 1, 2}, k \in {NULL, 1}, pts \in {NULL, 5}}

AggTables == UNION {[1..n -> AggRows] : n \in 0..MaxAggRows}

InitAgg ==
    /\ match_screenshots \in AggTables
    /\ storage = {}
    /\ nextRowId = 1
    /\ nextObj = 1
    /\ mounted = {"p1"}
    /\ InitTournament({"p1"})
    /\ selectedTeamId = [c \in Players |-> ""]
    /\ selectedDay = [c \in Players |-> 1]
    /\ teamUploadCounts = [c \in Players |-> [t \in Teams |-> NULL]]
    /\ teams = [c \in Players |-> <<>>]
    /\ uploading = [c \in Players |-> FALSE]
    /\ analyzing = [c \in Players |-> FALSE]
    /\ batch = [c \in Players |-> IdleBatch]
    /\ fetches = [c \in Players |->
                     IF c = "p1" THEN {Fetch("matches", "T1")} ELSE {}]
    /\ matchError = [c \in Players |-> FALSE]
    /\ trace = [c \in Players |-> <<>>]
    /\ batches = 0
    /\ apiInserts = <<>>
    /\ adminTeams = <<>>
    /\ adminFetches = {"matches"}
    /\ adminMatchError = FALSE
    /\ editDialogOpen = FALSE
    /\ selectedScreenshot = NULL
    /\ editPlacement = 1
    /\ editKills = 0
    /\ adminToast = ""
    /\ edits = 0
    /\ InitCalc
    /\ InitRest

NextAgg ==
    \/ \E c \in Players, ok \in BOOLEAN : FetchTeamsMatches(c, ok)
    \/ \E ok \in BOOLEAN : AdminFetchTeamsMatches(ok)

SpecAgg == InitAgg /\ [][NextAgg]_vars

\* The verification dialog opened and submitted without a change, on every
\* table of one or two stored rows: rows as handleFileUpload writes them
\* (placement 0, 1 or 9 with 2 kills and their points) and rows with a null
\* column, as the table allows.
StoredRows(n) ==
    {Row(n, "A", Earlier, 1, n, p, k,
         IF p # NULL /\ k # NULL THEN UploadPoints(p, k) ELSE NULL) :
        p \in {NULL, 0, 1, 9}, k \in {NULL, 2}}

StoredTables ==
    {<<r>> : r \in StoredRows(1)}
       \cup {<<r1, r2>> : r1 \in StoredRows(1), r2 \in StoredRows(2)}

InitNoop ==
    /\ match_screenshots \in StoredTables
    /\ storage = 1..Len(match_screenshots)
    /\ nextRowId = Len(match_screenshots) + 1
    /\ nextObj = Len(match_screenshots) + 1
    /\ apiInserts = <<>>
    /\ InitPlayers({})
    /\ InitAdmin
    /\ InitCalc
    /\ InitRest

NextNoop ==
    \/ \E n \in 1..Len(match_screenshots) : handleEdit(n)
    \/ CloseEditDialog
    \/ \E ok \in BOOLEAN : edits < MaxEdits /\ handleUpdate(ok)

SpecNoop == InitNoop /\ [][NextNoop]_vars

\* One player changing the tournament and the team, with the team list and
\* the standings fetched for each selection, and uploads of single images.
InitTournamentSpec ==
    /\ InitDb(1)
    /\ InitPlayers({"p1"})
    /\ InitAdmin
    /\ InitCalc
    /\ InitRest

NextTournament ==
    \/ \E c \in Players, tid \in Tournaments : SelectTournament(c, tid)
    \/ \E c \in Players, tid \in Tournaments, ok \in BOOLEAN :
          FetchTeamsForTournament(c, tid, ok)
    \/ \E c \in Players, t \in Teams \cup OtherTeams : SelectTeam(c, t)
    \/ \E c \in Players : FetchTeams(c)
    \/ \E c \in Players : FetchTeamsData(c, TRUE)
    \/ \E c \in Players : FetchTeamsMatches(c, TRUE)
    \/ \E c \in Players :
          batches < MaxTournamentBatches /\ HandleFileUpload(c, <<TRUE>>)
    \/ \E c \in Players : StorageUpload(c, TRUE)
    \/ \E c \in Players, res \in RaceAnalysis : Analyze(c, res)
    \/ \E c \in Players : InsertScreenshot(c, TRUE)

SpecTournament == InitTournamentSpec /\ [][NextTournament]_vars

\* One player's batches when every remote call returns: each call in flight
\* (storage upload, analysis, insert) eventually returns, with any outcome.
RemoteCallReturns(c) ==
    \/ \E ok \in BOOLEAN : StorageUpload(c, ok)
    \/ \E res \in AnalysisResults : Analyze(c, res)
    \/ \E ok \in BOOLEAN : InsertScreenshot(c, ok)

InitReturns ==
    /\ InitDb(0)
    /\ InitPlayers({"p1"})
    /\ InitAdmin
    /\ InitCalc
    /\ InitRest

NextReturns ==
    \/ \E c \in Players, t \in Teams : SelectTeam(c, t)
    \/ \E c \in Players, files \in FileInputs :
          batches < MaxBatches /\ HandleFileUpload(c, files)
    \/ \E c \in Players : RemoteCallReturns(c)

SpecReturns ==
    /\ InitReturns
    /\ [][NextReturns]_vars
    /\ \A c \in Players : WF_vars(RemoteCallReturns(c))

\* Two players with sessions: p1 came in by direct player access (team_id
\* null), p2 with an access code of team A. Each uploads single images for
\* any team and refreshes its standings.
InitAccess ==
    /\ InitDb(0)
    /\ InitPlayers(Players)
    /\ InitAdmin
    /\ InitCalc
    /\ sessions = <<PlayerSession("p1"),
                    AccessCodeSession("p2", <<"A">>,
                                      [role |-> "player", team_id |-> "A"])>>
    /\ authUser = NULL
    /\ nextUserId = 1
    /\ route = "/"
    /\ authPage = IdleAuth(<<>>, "")
    /\ indexPage = IdleIndex
    /\ logins = 0
    /\ InitGallery

NextAccess ==
    \/ \E c \in Players, t \in Teams : SelectTeam(c, t)
    \/ \E c \in Players :
          batches < MaxBatches /\ HandleFileUpload(c, <<TRUE>>)
    \/ \E c \in Players : StorageUpload(c, TRUE)
    \/ \E c \in Players, res \in RaceAnalysis : Analyze(c, res)
    \/ \E c \in Players, ok \in BOOLEAN : InsertScreenshot(c, ok)
    \/ \E c \in Players : FetchTeamsData(c, TRUE)
    \/ \E c \in Players : FetchTeamsMatches(c, TRUE)

SpecAccess == InitAccess /\ [][NextAccess]_vars

\* One browser: the Auth page's two logins, Index and the sign-outs.
InitAuthSpec ==
    /\ InitDb(0)
    /\ InitPlayers({})
    /\ InitAdmin
    /\ InitCalc
    /\ InitRest

NextAuth ==
    \/ \E typed \in TypedCodes : SetAccessCode(typed)
    \/ AuthMount
    \/ \E ok \in BOOLEAN : logins < MaxLogins /\ HandleAccessCode(ok)
    \/ \E res \in ValidateResults : ValidateAccessCode(res)
    \/ \E ok \in BOOLEAN : AccessCodeSessionInsert(ok)
    \/ \E ok \in BOOLEAN : logins < MaxLogins /\ HandlePlayerAccess(ok)
    \/ \E ok \in BOOLEAN : PlayerSessionInsert(ok)
    \/ AccessCodeThrows
    \/ PlayerAccessThrows
    \/ OpenIndex
    \/ \E ok \in BOOLEAN : checkAuth(ok)
    \/ AdminHandleSignOut
    \/ PlayerHandleSignOut

SpecAuth == InitAuthSpec /\ [][NextAuth]_vars

\* The galleries of both dashboards and deletes through the table API, beside
\* one player's uploads.
InitDelete ==
    /\ InitDb(MaxDeletes)
    /\ InitPlayers({"p1"})
    /\ InitAdmin
    /\ InitCalc
    /\ InitRest

NextDelete ==
    \/ \E c \in Players : SelectTeam(c, "A")
    \/ \E c \in Players :
          batches < MaxBatches /\ HandleFileUpload(c, <<TRUE>>)
    \/ \E c \in Players : StorageUpload(c, TRUE)
    \/ \E c \in Players, res \in RaceAnalysis : Analyze(c, res)
    \/ \E c \in Players : InsertScreenshot(c, TRUE)
    \/ \E isAdmin \in BOOLEAN, n \in 1..Len(match_screenshots) :
          Len(deletes) < MaxDeletes /\ handleDeleteScreenshot(isAdmin, n)
    \/ \E ok \in BOOLEAN : DeleteStorageReturns(ok)
    \/ \E hasRole \in BOOLEAN, ok \in BOOLEAN : DeleteRowReturns(hasRole, ok)
    \/ \E hasRole \in BOOLEAN, n \in 1..Len(match_screenshots) :
          Len(deletes) < MaxDeletes /\ ApiDelete(hasRole, n)

SpecDelete == InitDelete /\ [][NextDelete]_vars

\* ------------------------------------------------------------- properties

\* The point table as the specification states it: 1->10, 2->6, 3->5, 4->4,
\* 5->3, 6->2, 7->1, 8->1, every other placement 0.
ClaimTable(p) ==
    CASE p = 1 -> 10 [] p = 2 -> 6 [] p = 3 -> 5 [] p = 4 -> 4
      [] p = 5 -> 3 [] p = 6 -> 2 [] p = 7 -> 1 [] p = 8 -> 1
      [] OTHER -> 0

\* C1: for every placement and every kill count >= 0, the points computed at
\* upload time and the points computed at admin edit time both equal
\* table[placement] + kills, a placement outside 1..8 contributing 0.
C1_PointsAreTablePlusKills ==
    /\ calcOut.upload # NULL =>
          calcOut.upload = ClaimTable(calcIn.placement) + calcIn.kills
    /\ calcOut.edit # NULL =>
          calcOut.edit = ClaimTable(calcIn.placement) + calcIn.kills

\* The examples of C1, computed at both call sites: (1,5) -> 15 at upload time
\* and at edit time, or (9,3) -> 3, or the eighth place scoring 1 + kills.
C1_Witness ==
    /\ calcOut.upload # NULL /\ calcOut.edit # NULL
    /\ calcIn.placement = 8 /\ calcIn.kills = 3
    /\ calcOut.upload = 4 /\ calcOut.edit = 4

\* The rows the team `t` has in match_screenshots, by position.
TeamRows(t) ==
    {n \in 1..Len(match_screenshots) : match_screenshots[n].team_id = t}

\* C2: after any sequence of player uploads and admin edits every row has
\* points = table[placement] + kills, and the standings of both dashboards
\* have totalPoints = placementPoints + killPoints for every team.
C2_ScoringAgrees ==
    /\ \A n \in 1..Len(match_screenshots) :
          match_screenshots[n].points =
             ClaimTable(match_screenshots[n].placement) + match_screenshots[n].kills
    /\ \A t \in Teams :
          LET res == SelectMatches(match_screenshots, TRUE)
              p == PlayerTeamStats(res, t)
              a == AdminTeamStats(res, t)
          IN /\ p.totalPoints = p.placementPoints + p.killPoints
             /\ a.totalPoints = a.placementPoints + a.killPoints
    /\ adminTeams # <<>> =>
          \A t \in Teams :
             adminTeams[t].totalPoints =
                adminTeams[t].placementPoints + adminTeams[t].killPoints

\* Two uploaded rows of team A, one of them corrected by the administrator to
\* the second place, and the standings fetched after the correction.
C2_Witness ==
    /\ adminToast = "updated"
    /\ Cardinality(TeamRows("A")) = 2
    /\ \E n \in TeamRows("A") : match_screenshots[n].placement = 2
    /\ \E n \in TeamRows("A") : match_screenshots[n].placement = 9
    /\ adminTeams # <<>> /\ ~adminMatchError
    /\ adminTeams["A"] = AdminTeamStats(SelectMatches(match_screenshots, TRUE), "A")
    /\ adminTeams["A"].placementPoints = 6

\* The sum of a column over the rows `S` of match_screenshots, null as 0.
RECURSIVE SumPointsOver(_)
SumPointsOver(S) ==
    IF S = {} THEN 0
    ELSE LET n == CHOOSE n \in S : TRUE
         IN OrZero(match_screenshots[n].points) + SumPointsOver(S \ {n})

RECURSIVE SumKillsOver(_)
SumKillsOver(S) ==
    IF S = {} THEN 0
    ELSE LET n == CHOOSE n \in S : TRUE
         IN OrZero(match_screenshots[n].kills) + SumKillsOver(S \ {n})

\* The standings a completed fetchTeams holds for the table it read.
PlayerFetched(c) == teams[c] # <<>> /\ ~matchError[c]
AdminFetched == adminTeams # <<>> /\ ~adminMatchError

C5_TeamCap ==
    \A t \in Teams : Cardinality(TeamRows(t)) <= MaxUploads

\* The count of the selected team the client `c` holds.
KnownCount(c) == CurrentUploads(teamUploadCounts[c], selectedTeamId[c])

\* C6: a call of handleFileUpload for a team whose count known to the client
\* is 12 or more is rejected: the call writes no object, starts no analysis,
\* inserts no row and leaves no batch behind that would; every batch in
\* progress was started with a known count below 12.
C6_RejectedAtCap ==
    /\ [](\A c \in Players :
             batch[c].pc # "idle" => batch[c].currentUploads < MaxUploads)
    /\ [][\A c \in Players, files \in FileInputs :
            (KnownCount(c) >= MaxUploads /\ HandleFileUpload(c, files)) =>
               /\ batch'[c] = batch[c] /\ batch[c].pc = "idle"
               /\ ~uploading'[c] /\ ~analyzing'[c]
               /\ storage' = storage
               /\ match_screenshots' = match_screenshots]_vars

\* The client has read the count 12 for the selected team and the call was
\* rejected with the toast of the cap, nothing in progress.
C6_Witness ==
    /\ KnownCount("p1") >= MaxUploads /\ ~canUploadMore("p1")
    /\ trace["p1"] = <<Event(0, "max12", FALSE)>>
    /\ batch["p1"].pc = "idle" /\ ~uploading["p1"]
    /\ Cardinality(TeamRows("A")) = MaxUploads

\* C7: the cap is compared with the count the client read earlier and the
\* insert checks nothing: every started batch passed
\* currentUploads + files <= 12 with the count its client held at the call,
\* and a successful insert adds its row whatever the team's count then is.
C7_CheckThenInsert ==
    /\ [](\A c \in Players :
             batch[c].files # <<>> =>
                batch[c].currentUploads + Len(batch[c].files) <= MaxUploads)
    /\ [][\A c \in Players :
            (batch[c].pc = "insert" /\ InsertScreenshot(c, TRUE)) =>
               /\ Len(match_screenshots') = Len(match_screenshots) + 1
               /\ match_screenshots'[Len(match_screenshots')].team_id
                     = batch[c].team]_vars

\* Both players read the count 11 for team A, both passed the check with it,
\* both inserted, and team A has 13 rows.
C7_Witness ==
    /\ \A c \in Players :
          /\ batch[c].team = "A" /\ batch[c].pc = "idle"
          /\ batch[c].currentUploads = MaxUploads - 1
          /\ batch[c].successCount = 1
    /\ Cardinality(TeamRows("A")) > MaxUploads

\* C8: every row has day in {1,2,3}; the dashboard holds and submits only
\* the days 1..3 (1 until chosen); an insert with a day outside the range
\* leaves the table unchanged.
C8_DayInRange ==
    /\ [](\A n \in 1..Len(match_screenshots) :
             match_screenshots[n].day \in {1, 2, 3})
    /\ [](\A c \in Players :
             /\ selectedDay[c] \in {1, 2, 3}
             /\ batch[c].pc # "idle" => batch[c].day \in {1, 2, 3})
    /\ [][\A c \in Players, t \in Teams, day \in ApiDays :
            (day \notin {1, 2, 3} /\ ApiInsert(c, t, day)) =>
               match_screenshots' = match_screenshots]_vars

\* The dashboard inserted a row for day 3, an insert for day 4 was attempted
\* through the API, and the table holds only the dashboard's row.
C8_Witness ==
    /\ \E n \in 1..Len(apiInserts) : apiInserts[n] = MaxDay + 1
    /\ Len(match_screenshots) = 1
    /\ match_screenshots[1].day = 3
    /\ match_screenshots[1].player_id = "p1"
    /\ match_screenshots[1].screenshot_url \in storage

\* A stored object without a row that no batch is still working on.
Orphan(o) ==
    /\ o \in storage
    /\ \A n \in 1..Len(match_screenshots) :
          match_screenshots[n].screenshot_url # o
    /\ \A c \in Players :
          batch[c].pc \in {"analyze", "insert"} => batch[c].publicUrl # o

\* C9: no step removes a stored object; a file that fails at the analysis
\* (error or a null field) or at the insert after its storage upload
\* succeeded leaves its object stored without a row; and an object left
\* without a row stays so: no later step deletes it or inserts a row for it.
C9_NoRollback ==
    [][/\ storage \subseteq storage'
       /\ \A c \in Players :
             (/\ batch[c].pc \in {"analyze", "insert"}
              /\ batch'[c].failCount = batch[c].failCount + 1) =>
                \A o \in {batch[c].publicUrl} : Orphan(o)'
       /\ \A o \in storage : Orphan(o) => Orphan(o)']_vars

\* A batch of two files ended with both files failed behind their storage
\* uploads: two stored objects without rows.
C9_Witness ==
    /\ batch["p1"].pc = "idle" /\ batch["p1"].failCount = 2
    /\ Len(trace["p1"]) >= 5
    /\ Cardinality({o \in storage : Orphan(o)}) = 2
    /\ \E k \in 1..Len(trace["p1"]) : trace["p1"][k] = Event(0, "analyze", FALSE)
    /\ \E k \in 1..Len(trace["p1"]) : trace["p1"][k] = Event(1, "insert", FALSE)

\* The calls of one batch in the order they were made.
Terminal(e) == e.step = "insert" \/ ~e.ok
InOrder(tr) ==
    \A k \in 1..Len(tr) :
       \/ /\ tr[k].step = "upload"
          /\ IF k = 1 THEN tr[k].file = 0
             ELSE Terminal(tr[k - 1]) /\ tr[k].file = tr[k - 1].file + 1
       \/ /\ tr[k].step = "analyze" /\ k > 1
          /\ tr[k - 1] = Event(tr[k].file, "upload", TRUE)
       \/ /\ tr[k].step = "insert" /\ k > 1
          /\ tr[k - 1] = Event(tr[k].file, "analyze", TRUE)
       \/ /\ tr[k].step \notin {"upload", "analyze", "insert"}
          /\ Len(tr) = 1

\* C10: within a batch the files are processed one after another, each as
\* storage upload, then analysis, then insert: the upload of file i+1 comes
\* only after file i inserted its row or failed, the analysis only after the
\* file's upload succeeded, the insert only after its analysis succeeded (no
\* error, both fields extracted); and the bucket and the table change only at
\* the calls recorded so.
C10_Sequential ==
    /\ [](\A c \in Players : InOrder(trace[c]))
    /\ [](\A c \in Players :
             batch[c].pc # "idle" =>
                /\ batch[c].i < Len(batch[c].files)
                /\ \A k \in 1..Len(trace[c]) : trace[c][k].file <= batch[c].i)
    /\ [][/\ Len(match_screenshots') > Len(match_screenshots) =>
               \E c \in Players :
                  /\ trace'[c] = Append(trace[c], Event(batch[c].i, "insert", TRUE))
                  /\ match_screenshots'[Len(match_screenshots')].screenshot_url
                        = batch[c].publicUrl
                  /\ batch[c].publicUrl \in storage
          /\ storage' # storage =>
               \E c \in Players :
                  trace'[c] = Append(trace[c], Event(batch[c].i, "upload", TRUE))]_vars

\* A batch of two files: the first failed at the analysis, the second was
\* uploaded only then, analysed and inserted.
C10_Witness ==
    /\ trace["p1"] = <<Event(0, "upload", TRUE), Event(0, "analyze", FALSE),
                       Event(1, "upload", TRUE), Event(1, "analyze", TRUE),
                       Event(1, "insert", TRUE)>>
    /\ batch["p1"].successCount = 1 /\ batch["p1"].failCount = 1
    /\ Len(match_screenshots) = MaxUploads

\* C11: no step is retried: in one call of handleFileUpload each file has at
\* most one storage upload, one analysis and one insert attempt, whatever
\* their outcomes, and no call is made for a file the loop has left.
C11_NoRetry ==
    \A c \in Players :
       /\ \A k1, k2 \in 1..Len(trace[c]) :
             (/\ trace[c][k1].file = trace[c][k2].file
              /\ trace[c][k1].step = trace[c][k2].step) => k1 = k2
       /\ \A k1, k2 \in 1..Len(trace[c]) :
             k1 < k2 => trace[c][k1].file <= trace[c][k2].file
       /\ batch[c].files # <<>> /\ Len(trace[c]) > 0
             /\ trace[c][1].step = "upload" =>
                Len(trace[c]) <= 3 * Len(batch[c].files)

\* A finished batch of two files: the upload of the first failed, the insert
\* of the second failed, and each call was made once.
C11_Witness ==
    /\ batch["p1"].pc = "idle" /\ batch["p1"].failCount = 2
    /\ trace["p1"] = <<Event(0, "upload", FALSE), Event(1, "upload", TRUE),
                       Event(1, "analyze", TRUE), Event(1, "insert", FALSE)>>

\* C12: a failure at one file does not stop the loop: the next file is
\* processed; every file the loop has left is counted exactly once, so at the
\* end successCount + failCount = the number of files, and successCount grows
\* exactly with the rows inserted.
C12_EveryFileCounted ==
    /\ [](\A c \in Players :
             /\ batch[c].pc # "idle" =>
                   batch[c].successCount + batch[c].failCount = batch[c].i
             /\ (batch[c].pc = "idle" /\ batch[c].files # <<>>) =>
                   batch[c].successCount + batch[c].failCount
                      = Len(batch[c].files))
    /\ [][\A c \in Players :
            (batch[c].pc # "idle" /\ batch'[c] # batch[c]) =>
               /\ batch'[c].successCount - batch[c].successCount
                     = Len(match_screenshots') - Len(match_screenshots)
               /\ batch'[c].failCount >= batch[c].failCount
               /\ (/\ batch'[c].failCount > batch[c].failCount
                   /\ batch[c].i + 1 < Len(batch[c].files)) =>
                     /\ batch'[c].pc = "upload"
                     /\ batch'[c].i = batch[c].i + 1]_vars

\* A finished batch of two files: the storage upload of the first failed,
\* the second was inserted: one failure, one success, one more row.
C12_Witness ==
    /\ batch["p1"].pc = "idle"
    /\ batch["p1"].successCount = 1 /\ batch["p1"].failCount = 1
    /\ trace["p1"] = <<Event(0, "upload", FALSE), Event(1, "upload", TRUE),
                       Event(1, "analyze", TRUE), Event(1, "insert", TRUE)>>
    /\ Len(match_screenshots) = MaxUploads

\* C13: a sessions row is inserted once per successful login (exactly when
\* handleAccessCode or handlePlayerAccess ends with navigate("/")) and no
\* step changes or removes an existing row; the role Index shows is the role
\* of the one row written at login for the signed-in user.
C13_SessionWrittenOnce ==
    /\ [](indexPage.userRole # "" =>
             /\ indexPage.userId = authUser
             /\ \E n \in 1..Len(sessions) :
                   /\ sessions[n].user_id = indexPage.userId
                   /\ sessions[n].role = indexPage.userRole
                   /\ \A m \in 1..Len(sessions) :
                         sessions[m].user_id = indexPage.userId => m = n)
    /\ [][/\ Len(sessions') >= Len(sessions)
          /\ Len(sessions') <= Len(sessions) + 1
          /\ \A n \in 1..Len(sessions) : sessions'[n] = sessions[n]
          /\ Len(sessions') = Len(sessions) + 1 <=>
                (/\ authPage.pc \in {"insert", "player_insert"}
                 /\ route = "/auth" /\ route' = "/")]_vars

\* After a login as player, a sign-out and a login with an admin code the
\* table holds both rows as written and Index shows the administrator.
C13_Witness ==
    /\ Len(sessions) = 2
    /\ sessions[1].role = "player" /\ sessions[1].code_used = <<"PLAYER_DIRECT">>
    /\ sessions[2].role = "admin" /\ sessions[2].user_id = authUser
    /\ indexPage.userRole = "admin" /\ ~indexPage.loading

\* C14: after handleSignOut of either dashboard the user is on "/auth", the
\* browser holds no auth session, and no sessions row binds the signed-out
\* user to a role.
C14_SignOutTearsDown ==
    [][(AdminHandleSignOut \/ PlayerHandleSignOut) =>
          /\ route' = "/auth"
          /\ authUser' = NULL
          /\ \A n \in 1..Len(sessions') :
                sessions'[n].user_id # authUser]_vars

\* The part of C14 the code keeps: a sign-out ends the auth session and
\* leads to "/auth"; the sessions table is as before.
C14_SignOutEndsAuthSession ==
    [][(AdminHandleSignOut \/ PlayerHandleSignOut) =>
          /\ route' = "/auth"
          /\ authUser' = NULL
          /\ indexPage'.userRole = ""
          /\ sessions' = sessions]_vars

\* The characters toUpperCase changes.
LowerChars == {"a", "b"}

\* C15: when validate_access_code returns an error or no data,
\* handleAccessCode inserts no sessions row, signs out and stays on "/auth";
\* the code passed to validate_access_code and stored is the typed code
\* trimmed and upper-cased, and a row handleAccessCode inserts carries the
\* role and team_id validate_access_code returned, for the user signed in.
C15_AccessCodeValidated ==
    /\ [](authPage.pc \in {"validate", "insert"} =>
             /\ authPage.input_code # <<>>
             /\ Head(authPage.input_code) # " "
             /\ authPage.input_code[Len(authPage.input_code)] # " "
             /\ \A n \in 1..Len(authPage.input_code) :
                   authPage.input_code[n] \notin LowerChars
             /\ \E typed \in TypedCodes, a, b \in 0..1 :
                   /\ a + Len(authPage.input_code) + b = Len(typed)
                   /\ \A n \in 1..Len(authPage.input_code) :
                         authPage.input_code[n] = typed[a + n]
                         \/ (typed[a + n] = "a" /\ authPage.input_code[n] = "A")
                         \/ (typed[a + n] = "b" /\ authPage.input_code[n] = "B"))
    /\ [][/\ \A res \in ValidateResults :
                ((res.error \/ ~res.found) /\ ValidateAccessCode(res)) =>
                   /\ sessions' = sessions
                   /\ authUser' = NULL
                   /\ route' = "/auth"
                   /\ authPage'.pc = "idle"
          /\ \A res \in ValidateResults :
                (~res.error /\ res.found /\ ValidateAccessCode(res)) =>
                   /\ authPage'.codeData.role = res.role
                   /\ authPage'.codeData.team_id = res.team_id
                   /\ authPage'.input_code = authPage.input_code
          /\ (authPage.pc = "insert" /\ Len(sessions') > Len(sessions)) =>
                LET row == sessions'[Len(sessions')]
                IN /\ row.role = authPage.codeData.role
                   /\ row.team_id = authPage.codeData.team_id
                   /\ row.code_used = authPage.input_code
                   /\ row.user_id = authUser]_vars

\* The code typed as "A " was validated as "A", the function returned the
\* player role for team A, and the row carries them; an earlier attempt was
\* turned down and left no row.
C15_Witness ==
    /\ authPage.accessCode = <<"A", " ">>
    /\ logins = 2
    /\ Len(sessions) = 1
    /\ sessions[1].code_used = <<"A">>
    /\ sessions[1].role = "player" /\ sessions[1].team_id = "A"
    /\ sessions[1].user_id = 2 /\ authUser = 2
    /\ route = "/"

\* C16: an existing row changes only by handleUpdate: every other step
\* (upload, refresh, dialog input) leaves each existing row as it was; a
\* successful handleUpdate sets placement, kills and points =
\* table[placement] + kills of the one selected row together and nothing
\* else; a failed handleUpdate leaves the table unchanged.
C16_OnlyEditMutates ==
    [][/\ Len(match_screenshots') >= Len(match_screenshots)
       /\ ~(\E ok \in BOOLEAN : handleUpdate(ok)) =>
             \A n \in 1..Len(match_screenshots) :
                match_screenshots'[n] = match_screenshots[n]
       /\ handleUpdate(FALSE) => match_screenshots' = match_screenshots
       /\ handleUpdate(TRUE) =>
             /\ Len(match_screenshots') = Len(match_screenshots)
             /\ Cardinality({n \in 1..Len(match_screenshots) :
                   match_screenshots[n].id = selectedScreenshot}) = 1
             /\ \A n \in 1..Len(match_screenshots) :
                   match_screenshots'[n] =
                      IF match_screenshots[n].id = selectedScreenshot
                      THEN [match_screenshots[n] EXCEPT
                              !.placement = editPlacement,
                              !.kills = editKills,
                              !.points = ClaimTable(editPlacement) + editKills]
                      ELSE match_screenshots[n]]_vars

\* Two uploaded rows; the second was corrected to place 18 with the kills
\* the administrator typed, the first is as uploaded.
C16_Witness ==
    /\ adminToast = "updated" /\ edits = 1
    /\ Len(match_screenshots) = 2
    /\ match_screenshots[1].placement = 1 /\ match_screenshots[1].points = 10
    /\ match_screenshots[2].placement = MaxEditPlacement
    /\ match_screenshots[2].kills = MaxKills
    /\ match_screenshots[2].points = MaxKills
    /\ match_screenshots[2].day = 1 /\ match_screenshots[2].team_id = "A"

\* C17: a row is deleted only by an administrator: handleDeleteScreenshot
\* with isAdmin false removes nothing from the bucket or the table and
\* issues no call; a delete by a user for whom has_role(uid, 'admin') is
\* false removes no row; a row or an object disappears only in a delete the
\* administrator's gallery issued or in a delete the policy let through.
C17_OnlyAdminDeletes ==
    [][/\ \A n \in 1..Len(match_screenshots) :
             handleDeleteScreenshot(FALSE, n) =>
                /\ storage' = storage
                /\ match_screenshots' = match_screenshots
                /\ deleting' = <<>>
       /\ \A n \in 1..Len(match_screenshots) :
             ApiDelete(FALSE, n) => match_screenshots' = match_screenshots
       /\ \A ok \in BOOLEAN :
             DeleteRowReturns(FALSE, ok) =>
                match_screenshots' = match_screenshots
       /\ Len(match_screenshots') < Len(match_screenshots) =>
             \/ \E n \in 1..Len(match_screenshots) : ApiDelete(TRUE, n)
             \/ DeleteRowReturns(TRUE, TRUE)
       /\ ~(storage \subseteq storage') =>
             /\ \E ok \in BOOLEAN : DeleteStorageReturns(ok)
             /\ \E i \in 1..Len(deletes) :
                   deletes[i] = [by |-> "gallery", admin |-> TRUE]]_vars

\* The player's gallery called handleDeleteScreenshot and a user without the
\* admin role issued a delete: both rows and both objects are still there.
C17_Witness ==
    /\ deletes = <<[by |-> "gallery", admin |-> FALSE],
                   [by |-> "api", admin |-> FALSE]>>
    /\ deleting = <<>>
    /\ Len(match_screenshots) = MaxDeletes
    /\ \A n \in 1..Len(match_screenshots) :
          match_screenshots[n].screenshot_url \in storage

\* C18: when analyze-screenshot returns an error, a null placement or null
\* kills, no row is inserted for the file, no insert is issued and the file
\* is counted as failed; every row handleFileUpload created has non-null
\* placement and kills.
C18_NoRowWithoutExtraction ==
    /\ [](\A n \in 1..Len(match_screenshots) :
             match_screenshots[n].player_id \in Players =>
                /\ match_screenshots[n].placement # NULL
                /\ match_screenshots[n].kills # NULL)
    /\ [](\A c \in Players :
             batch[c].pc = "insert" =>
                batch[c].placement # NULL /\ batch[c].kills # NULL)
    /\ [][\A c \in Players, res \in AnalysisResults :
            (/\ res.error \/ res.placement = NULL \/ res.kills = NULL
             /\ Analyze(c, res)) =>
               /\ match_screenshots' = match_screenshots
               /\ batch'[c].pc # "insert"
               /\ batch'[c].failCount = batch[c].failCount + 1
               /\ batch'[c].successCount = batch[c].successCount]_vars

\* A batch of two files: the analysis of the first returned a null field
\* or an error and the file was counted as failed, the second was inserted
\* with placement and kills.
C18_Witness ==
    /\ batch["p1"].pc = "idle"
    /\ batch["p1"].failCount = 1 /\ batch["p1"].successCount = 1
    /\ Len(trace["p1"]) = 5
    /\ trace["p1"][2] = Event(0, "analyze", FALSE)
    /\ trace["p1"][5] = Event(1, "insert", TRUE)
    /\ match_screenshots[Len(match_screenshots)].player_id = "p1"
    /\ match_screenshots[Len(match_screenshots)].placement = 1

\* C19: in every reachable state each row has placement null or >= 1, kills
\* null or >= 0 and points >= 0.
C19_RowRanges ==
    \A n \in 1..Len(match_screenshots) :
       /\ match_screenshots[n].placement = NULL
          \/ match_screenshots[n].placement >= 1
       /\ match_screenshots[n].kills = NULL \/ match_screenshots[n].kills >= 0
       /\ match_screenshots[n].points # NULL
       /\ match_screenshots[n].points >= 0

\* C20: for the same teams and the same rows both dashboards compute the
\* same standings: totalPoints, placementPoints, killPoints, totalKills,
\* matchesPlayed and firstPlaceWins agree for every team, for the rows of a
\* query that succeeded and for a query that failed.
C20_SameAggregation ==
    /\ \A t \in Teams, ok \in BOOLEAN :
          LET res == SelectMatches(match_screenshots, ok)
              p == PlayerTeamStats(res, t)
              a == AdminTeamStats(res, t)
          IN /\ p.totalPoints = a.totalPoints
             /\ p.placementPoints = a.placementPoints
             /\ p.killPoints = a.killPoints
             /\ p.totalKills = a.totalKills
             /\ p.matchesPlayed = a.matchesPlayed
             /\ p.firstPlaceWins = a.firstPlaceWins
    /\ \A c \in Players :
          (/\ teams[c] # <<>> /\ adminTeams # <<>>
           /\ matchError[c] = adminMatchError) =>
             \A t \in Teams : teams[c][t] = adminTeams[t]

\* Both dashboards fetched a table where team A has a second place and a
\* row with a null placement and null points: both show 6 placement points,
\* no win and two matches.
C20_Witness ==
    /\ PlayerFetched("p1") /\ AdminFetched
    /\ Cardinality(TeamRows("A")) = 2
    /\ \E n \in TeamRows("A") : match_screenshots[n].placement = 2
    /\ \E n \in TeamRows("A") :
          /\ match_screenshots[n].placement = NULL
          /\ match_screenshots[n].points = NULL
    /\ teams["p1"]["A"].placementPoints = 6
    /\ adminTeams["A"].placementPoints = 6
    /\ teams["p1"]["A"] = adminTeams["A"]

\* The rows of the sessions table of one user.
SessionRows(user) ==
    {n \in 1..Len(sessions) : sessions[n].user_id = user}

\* C21: Index renders a dashboard only for the user of the live auth
\* session who has a sessions row: AdminDashboard only when that row's role
\* is admin, PlayerDashboard only when it is player; a checkAuth that finds
\* no auth session, no row, or whose lookup fails, sends the user to /auth
\* and renders no dashboard.
C21_DashboardNeedsSession ==
    /\ [](IndexRenders \in {"AdminDashboard", "PlayerDashboard"} =>
             /\ authUser # NULL
             /\ indexPage.userId = authUser
             /\ \E n \in SessionRows(authUser) :
                   sessions[n].role = indexPage.userRole)
    /\ [](IndexRenders = "AdminDashboard" =>
             \A n \in SessionRows(authUser) : sessions[n].role = "admin")
    /\ [](IndexRenders = "PlayerDashboard" =>
             \A n \in SessionRows(authUser) : sessions[n].role = "player")
    /\ [][\A ok \in BOOLEAN :
            (/\ checkAuth(ok)
             /\ authUser = NULL \/ SessionRows(authUser) = {} \/ ~ok) =>
               /\ route' = "/auth"
               /\ \A r \in {"AdminDashboard", "PlayerDashboard"} :
                     IndexRenders' # r]_vars

\* The administrator's dashboard is rendered for the signed-in user 2, whose
\* row has the role admin; user 1, of an earlier login attempt, has no row.
C21_Witness ==
    /\ IndexRenders = "AdminDashboard"
    /\ authUser = 2
    /\ SessionRows(1) = {}
    /\ \E n \in SessionRows(2) : sessions[n].role = "admin"

\* C24: after a login handler has ended, a signed-in user has a sessions
\* row: no ending of handleAccessCode or handlePlayerAccess leaves an
\* authenticated identity without a row.
C24_NoIdentityWithoutRow ==
    (authPage.pc = "idle" /\ authUser # NULL) => SessionRows(authUser) # {}

\* C22: a batch is accepted or rejected as a whole before any side effect:
\* with no team selected, with the known count plus the number of files
\* above 12, with more than 4 files or with a file that is not an image, the
\* call of handleFileUpload writes no object, starts no analysis, inserts no
\* row and leaves no batch in progress; otherwise the batch starts with all
\* its files, and a finished batch has sent every one of its files to storage.
C22_BatchWholeOrNothing ==
    /\ [][\A c \in Players, files \in FileInputs :
            HandleFileUpload(c, files) =>
               /\ storage' = storage /\ nextObj' = nextObj
               /\ match_screenshots' = match_screenshots
               /\ IF \/ files = <<>>
                     \/ selectedTeamId[c] = ""
                     \/ KnownCount(c) + Len(files) > MaxUploads
                     \/ Len(files) > MaxBatchFiles
                     \/ \E n \in 1..Len(files) : ~files[n]
                  THEN /\ batch'[c] = batch[c] /\ batch[c].pc = "idle"
                       /\ ~uploading'[c] /\ ~analyzing'[c]
                  ELSE /\ batch'[c].pc = "upload" /\ batch'[c].i = 0
                       /\ batch'[c].files = files
                       /\ uploading'[c]]_vars
    /\ [](\A c \in Players :
             (/\ batch[c].pc = "idle" /\ trace[c] # <<>>
              /\ trace[c][1].step = "upload") =>
                \A i \in 0..(Len(batch[c].files) - 1) :
                   \E k \in 1..Len(trace[c]) :
                      trace[c][k].file = i /\ trace[c][k].step = "upload")

\* The first call, an image and a file that is not an image for team B, was
\* rejected: no object was written, no row inserted, nothing is in progress.
C22_Witness ==
    /\ trace["p1"] = <<Event(0, "not_image", FALSE)>>
    /\ batches = 1
    /\ selectedTeamId["p1"] = "B"
    /\ batch["p1"] = IdleBatch
    /\ nextObj = MaxUploads /\ nextRowId = MaxUploads
    /\ ~uploading["p1"] /\ ~analyzing["p1"]

\* C23: with one player client and no other writer a team never holds more
\* than 12 rows, and the count a batch was checked against is not below the
\* number of the team's rows in the table when the batch started.
C23_SingleClientCap ==
    /\ \A t \in Teams : Cardinality(TeamRows(t)) <= MaxUploads
    /\ \A c \in Players :
          batch[c].pc # "idle" =>
             Cardinality(TeamRows(batch[c].team))
                <= batch[c].currentUploads + batch[c].successCount

\* C25: opening the edit dialog on a row and pressing Update without
\* changing a field leaves the data as it was: the table after handleUpdate
\* equals the table before, for rows with a null or 0 placement or null kills
\* as well.
C25_UpdateUnchangedIsNoOp ==
    [][\A ok \in BOOLEAN :
         handleUpdate(ok) => match_screenshots' = match_screenshots]_vars

\* C26: the administrator's handleDeleteScreenshot calls the storage removal
\* first and the row deletion second; a storage error does not stop the row
\* deletion; a failed row deletion leaves the row in the table and does not
\* bring a removed image back, so a row without its image is reachable.
C26_StorageThenRow ==
    [][/\ \A n \in 1..Len(match_screenshots) :
             handleDeleteScreenshot(TRUE, n) =>
                /\ deleting' = <<[pc |-> "storage",
                                  id |-> match_screenshots[n].id,
                                  url |-> match_screenshots[n].screenshot_url]>>
                /\ storage' = storage
                /\ match_screenshots' = match_screenshots
       /\ \A ok \in BOOLEAN :
             DeleteStorageReturns(ok) =>
                /\ deleting[1].pc = "storage"
                /\ deleting' = <<[deleting[1] EXCEPT !.pc = "row"]>>
                /\ match_screenshots' = match_screenshots
                /\ storage' = IF ok THEN storage \ {deleting[1].url}
                              ELSE storage
       /\ \A hasRole, ok \in BOOLEAN :
             DeleteRowReturns(hasRole, ok) =>
                /\ deleting[1].pc = "row"
                /\ storage' = storage
                /\ deleting' = <<>>
                /\ IF ok /\ hasRole
                   THEN \A n \in 1..Len(match_screenshots') :
                           match_screenshots'[n].id # deleting[1].id
                   ELSE match_screenshots' = match_screenshots]_vars

\* The administrator deleted row 1 in the gallery: the image was removed, the
\* row deletion failed, and row 1 is in the table without its image.
C26_Witness ==
    /\ deletes = <<[by |-> "gallery", admin |-> TRUE]>>
    /\ deleting = <<>>
    /\ Len(match_screenshots) = MaxDeletes
    /\ match_screenshots[1].screenshot_url \notin storage
    /\ match_screenshots[2].screenshot_url \in storage

\* The standings hold the teams of the selected tournament.
ShowsSelected(c) ==
    teams[c] # <<>>
    /\ DOMAIN teams[c] = TournamentTeams(selectedTournamentId[c])

\* C27: the standings never go back to another tournament: while the
\* selected tournament stays the same, standings that hold the teams of the
\* selected tournament keep holding them, whatever fetch completes.
C27_StandingsNeverRevert ==
    [][\A c \in Players :
         (ShowsSelected(c) /\ selectedTournamentId'[c] = selectedTournamentId[c])
            => \A s \in {selectedTournamentId[c]} :
                  DOMAIN teams'[c] = TournamentTeams(s)]_vars

\* C28: a dashboard whose file input is enabled has selected a team of the
\* selected tournament or none, and every batch in progress is for a team of
\* the tournament selected when it started.
C28_TeamOfSelectedTournament ==
    /\ \A c \in mounted :
          InputEnabled(c) =>
             selectedTeamId[c] \in TournamentTeams(selectedTournamentId[c])
    /\ \A c \in Players :
          batch[c].pc # "idle" =>
             batch[c].team \in TournamentTeams(batch[c].tournament)

\* No batch in progress: the state the finally block leaves.
BatchIdle(c) ==
    /\ batch[c].pc = "idle"
    /\ ~uploading[c] /\ ~analyzing[c]
    /\ batch[c].progress = <<>>

\* C29: when every remote call returns, each accepted batch terminates; a
\* dashboard without a batch in progress has uploading = false, analyzing =
\* false and an empty progress text, whatever step failed; while a batch is
\* in progress the file input is disabled and no call of handleFileUpload
\* happens, so a client never has two batches in flight.
C29_BatchTerminates ==
    /\ \A c \in Players : (batch[c].pc # "idle") ~> BatchIdle(c)
    /\ [](\A c \in Players : batch[c].pc = "idle" => BatchIdle(c))
    /\ [](\A c \in Players :
             batch[c].pc # "idle" =>
                /\ ~InputEnabled(c) /\ uploading[c]
                /\ batch[c].progress = <<batch[c].i + 1, Len(batch[c].files)>>)
    /\ [][\A c \in Players, files \in FileInputs :
            HandleFileUpload(c, files) => batch[c].pc = "idle"]_vars

\* A batch of two files has ended, one file failed and one was inserted: the
\* dashboard is idle again with the input enabled.
C29_Witness ==
    /\ BatchIdle("p1") /\ InputEnabled("p1")
    /\ Len(batch["p1"].files) = 2
    /\ batch["p1"].failCount = 1 /\ batch["p1"].successCount = 1

\* C30: every authenticated user inserts for any team and reads every row:
\* an insert that returns no error adds its row whatever team_id the
\* uploader's sessions row has (null for direct player access); the row has
\* the uploader as player_id and the team selected in the form when the batch
\* started as team_id; a refresh counts the rows of every uploader.
C30_AnyTeamAnyUser ==
    [][/\ \A c \in Players :
             HandleFileUpload(c, <<TRUE>>) =>
                (batch'[c].pc = "upload" => batch'[c].team = selectedTeamId[c])
       /\ \A c \in Players :
             InsertScreenshot(c, TRUE) =>
                /\ Len(match_screenshots') = Len(match_screenshots) + 1
                /\ match_screenshots'[Len(match_screenshots')].player_id = c
                /\ match_screenshots'[Len(match_screenshots')].team_id
                      = batch[c].team
       /\ \A c \in Players :
             FetchTeamsMatches(c, TRUE) =>
                \A t \in Teams :
                   /\ teamUploadCounts'[c][t] = Cardinality(TeamRows(t))
                   /\ teams'[c][t].matchesPlayed = Cardinality(TeamRows(t))]_vars

\* p1, whose session has no team, and p2, whose session has team A, each
\* inserted a row for team B, and p1's refresh counted both.
C30_Witness ==
    /\ SessionTeam(sessions, "p1") = NoTeam
    /\ SessionTeam(sessions, "p2") = "A"
    /\ Len(match_screenshots) = 2
    /\ {match_screenshots[n].player_id : n \in 1..2} = Players
    /\ \A n \in 1..2 : match_screenshots[n].team_id = "B"
    /\ teamUploadCounts["p1"]["B"] = 2

====
